---------------------------- MODULE Spec2Model ----------------------------
(***************************************************************************)
(* Model of the host-side debug-probe tool:                                *)
(*   - ElfFlashVerifier::from_elf_file / get_memory_map / verify_flash     *)
(*     (src/src/elf_reader.rs)                                             *)
(*   - ProtocolHandler::compute_crc / write_frame / read_frame             *)
(*     (src/src/protocol.rs)                                               *)
(*   - SerialLoader's operations over the port (src/src/loader.rs)         *)
(*   - the event front end (src/src/socketio.rs)                           *)
(*                                                                         *)
(* The specifications share the variables of the module:                   *)
(*   Spec        the verify_flash run, one action per step of its loops;   *)
(*   FrameSpec   write_frame applied to a command drawn from CommandSet,   *)
(*               and the frame written to the port;                        *)
(*   CrcSpec     compute_crc applied to two buffers drawn from BufSet;     *)
(*   CrcFlipSpec compute_crc applied to a buffer and to the same buffer    *)
(*               with one bit inverted;                                    *)
(*   DecodeSpec  read_frame applied to a reply buffer;                     *)
(*   SessionSpec sequences of SerialLoader operations against a device     *)
(*               that may answer each request with one reply frame;        *)
(*   LoadSpec    from_elf_file applied to a section table drawn from       *)
(*               HeaderTables, then get_memory_map and calculate_checksum  *)
(*               on what it returned;                                      *)
(*   SoftCrcSpec software_crc applied to a buffer drawn from SoftBufSet;   *)
(*   FrontSpec   the handlers of halt and resume events and the            *)
(*               connectivity poller, sharing one SerialLoader.            *)
(* TerminationSpec is the verify_flash run under weak fairness.            *)
(* Each specification keeps the variables of the others at their idle      *)
(* values.                                                                 *)
(***************************************************************************)
EXTENDS Integers, Sequences, FiniteSets, TLC

VARIABLES
    sections,      \* ElfFlashVerifier.sections: Vec<FlashSection>
    result,        \* the VerificationResult under construction
    sec,           \* position of the `for section in &self.sections` loop (1-based)
    flash_data,    \* Vec<u8> read back for the current section
    current_addr,  \* u32 cursor of the chunk loop
    remaining,     \* u32 bytes of the current section still to read
    pc,            \* control point of verify_flash
    calls,         \* every read_flash(address, length) call made so far, in order
    rets,          \* raw Ok(..) values read_flash returned for the current section
    build,         \* build profile of the binary: "debug" or "release"
    command,       \* ProtocolHandler.command
    frame,         \* the Vec<u8> write_frame returned
    fpc,           \* control point of the write_frame call
    bufA,          \* first buffer handed to compute_crc
    bufB,          \* second buffer handed to compute_crc
    crcA,          \* compute_crc(bufA, len)
    crcB,          \* compute_crc(bufB, len)
    cpc,           \* control point of the compute_crc calls
    reply,         \* the byte buffer handed to read_frame
    decoded,       \* what read_frame returned
    dpc,           \* control point of the read_frame call
    sop,           \* the SerialLoader operation in progress
    spc,           \* control point of the SerialLoader operation
    tx,            \* bytes the host has written to the port, in order
    rx,            \* bytes the device has sent that the host has not read yet
    log,           \* the operations that have returned, in order
    caller,        \* the composite operation (read_register, read_pc_register) in progress
    returned,      \* the composite operations that have returned, in order
    headers,       \* elf.section_headers of the image being loaded
    image,         \* buffer: the bytes of the image file
    loaded,        \* the local `sections` of from_elf_file
    li,            \* position of the section-header loop (1-based)
    lpc,           \* control point of from_elf_file and get_memory_map
    verifier,      \* what from_elf_file returned
    memmap,        \* what get_memory_map returned
    checksum,      \* what calculate_checksum returned
    crc_data,      \* the slice handed to software_crc
    crc_length,    \* the length handed to software_crc
    crc32,         \* what software_crc returned
    kpc,           \* control point of the software_crc call
    mutex,         \* the Mutex around the front end's SerialLoader
    tasks,         \* the tasks spawned by halt and resume events, in order
    acks,          \* the CommandResponse acknowledgements sent, in order
    port,          \* the transport handle of the front end's SerialLoader
    wire,          \* bytes the device has sent that no read has taken
    owed,          \* requests the device has received and not answered
    poller,        \* the task of check_port_connection
    connected,     \* whether the device is plugged in
    plugs          \* plug/unplug events so far

verifyVars == <<sections, result, sec, flash_data, current_addr, remaining, pc, calls, rets>>
frameVars == <<build, command, frame, fpc>>
crcVars == <<bufA, bufB, crcA, crcB, cpc>>
decodeVars == <<reply, decoded, dpc>>
sessionVars == <<sop, spc, tx, rx, log, caller, returned>>
loadVars == <<headers, image, loaded, li, lpc, verifier, memmap, checksum>>
softVars == <<crc_data, crc_length, crc32, kpc>>
frontVars == <<mutex, tasks, acks, port, wire, owed, poller, connected, plugs>>
vars == <<sections, result, sec, flash_data, current_addr, remaining, pc, calls, rets,
          build, command, frame, fpc, bufA, bufB, crcA, crcB, cpc,
          reply, decoded, dpc, sop, spc, tx, rx, log, caller, returned,
          headers, image, loaded, li, lpc, verifier, memmap, checksum,
          crc_data, crc_length, crc32, kpc,
          mutex, tasks, acks, port, wire, owed, poller, connected, plugs>>

----------------------------------------------------------------------------
(* Arithmetic helpers *)

Min(a, b) == IF a < b THEN a ELSE b

\* n copies of byte b
Fill(n, b) == [k \in 1..n |-> b]

----------------------------------------------------------------------------
(* Flash verifier: src/src/elf_reader.rs *)

\* Bounds of the verifier's inputs.
MaxSections == 2
MaxSize == 5
MaxTotalSize == 6

\* Read-back ceiling of one read_flash call: std::cmp::min(remaining, 4)
CHUNK_MAX == 4
\* Fill byte of chunk.resize(chunk_size, 0xff)
PAD_BYTE == 255

\* Byte values of expected data and of read-back data.
ByteSet == {0, 255}
\* Section load addresses: primary flash window and information-flash window.
\* With these addresses and sizes up to MaxSize no u32 sum of the run wraps.
AddrSet == {0, 1103101952}
\* Error strings the read-back callback may return.
ReadErrSet == {"timeout"}

\* Expected data of a section of declared size s: s bytes of either value, or
\* one byte more (FlashSection's fields are public, so size and data.len()
\* are independent).
SectionsOfSize(a, s) ==
    { [address |-> a, size |-> s, data |-> Fill(s, b)] : b \in ByteSet }
    \cup { [address |-> a, size |-> s, data |-> Fill(s + 1, 0)] }
SectionPool ==
    UNION { SectionsOfSize(a, s) : a \in AddrSet, s \in 0..MaxSize }

\* Sum of the declared sizes of a section list
RECURSIVE TotalSize(_)
TotalSize(secs) ==
    IF secs = <<>> THEN 0 ELSE Head(secs).size + TotalSize(Tail(secs))

\* Section lists of at most MaxSections sections and MaxTotalSize bytes.
SectionLists ==
    UNION { { secs \in [1..n -> SectionPool] : TotalSize(secs) <= MaxTotalSize } :
            n \in 0..MaxSections }

\* What read_flash(address, n) may hand back inside Ok(..): the n bytes asked
\* for, of either value, or any other number of bytes from none to one more
\* than requested.
ChunkReturns(n) ==
    { Fill(n, b) : b \in ByteSet } \cup { Fill(k, 0) : k \in 0..(n + 1) }

\* VerificationResult::new()
NewResult ==
    [ success |-> TRUE,
      total_sections |-> 0,
      verified_sections |-> <<>>,
      mismatched_sections |-> [a \in {} |-> <<>>],
      errors |-> <<>> ]

\* format!("Failed to read flash at 0x{:08X}: {}", current_addr, e)
ReadErrorMsg(addr, e) == [kind |-> "Failed to read flash at", address |-> addr, cause |-> e]

\* format!("Size mismatch in section at 0x{:08X}: expected {} bytes, got {} bytes", ..)
SizeMismatchMsg(addr, expected, got) ==
    [kind |-> "Size mismatch in section at", address |-> addr, expected |-> expected, got |-> got]

\* Mutant of Resize: pads with 0x00 instead of 0xFF.
ResizeZeroPad(chunk, n) ==
    [k \in 1..n |-> IF k <= Len(chunk) THEN chunk[k] ELSE 0]

\* chunk.resize(chunk_size, 0xff): truncate, or extend with the fill byte
Resize(chunk, n) ==
    [k \in 1..n |-> IF k <= Len(chunk) THEN chunk[k] ELSE PAD_BYTE]

\* HashMap::insert: a later insert under the same key replaces the value
MapInsert(m, k, v) ==
    [a \in (DOMAIN m) \cup {k} |-> IF a = k THEN v ELSE m[a]]

\* Mutant of ChunkSize: asks for one byte at a time.
ChunkSizeOne(rem) == Min(rem, 1)

\* Mutant of ChunkSize: always asks for a full chunk.
ChunkSizeNoMin(rem) == CHUNK_MAX

\* let chunk_size = std::cmp::min(remaining, 4);
ChunkSize(rem) == Min(rem, CHUNK_MAX)

\* Mutant of CompareFrom: stops at the first differing byte.
RECURSIVE CompareFromFirstOnly(_, _, _)
CompareFromFirstOnly(section, actual, i) ==
    IF i >= Min(Len(section.data), Len(actual))
    THEN <<>>
    ELSE IF section.data[i + 1] # actual[i + 1]
         THEN << [ address |-> section.address + i,
                   expected |-> section.data[i + 1],
                   actual |-> actual[i + 1] ] >>
         ELSE CompareFromFirstOnly(section, actual, i + 1)

\* The byte-by-byte comparison loop over zip(section.data, flash_data),
\* from 0-based offset i on.
RECURSIVE CompareFrom(_, _, _)
CompareFrom(section, actual, i) ==
    IF i >= Min(Len(section.data), Len(actual))
    THEN <<>>
    ELSE ( IF section.data[i + 1] # actual[i + 1]
           THEN << [ address |-> section.address + i,
                     expected |-> section.data[i + 1],
                     actual |-> actual[i + 1] ] >>
           ELSE <<>> )
         \o CompareFrom(section, actual, i + 1)

\* Mutant of RecordSection: no size check, the comparison runs over the
\* common prefix.
RecordSectionNoSizeCheck(res, section, actual) ==
    LET mismatches == CompareFrom(section, actual, 0)
    IN  IF mismatches = <<>>
        THEN [res EXCEPT !.verified_sections = Append(@, section.address)]
        ELSE [res EXCEPT !.mismatched_sections = MapInsert(@, section.address, mismatches)]

\* The rest of one iteration of the section loop once the chunk loop is
\* over: size check, comparison, and recording of the outcome.
RecordSection(res, section, actual) ==
    IF Len(actual) # Len(section.data)
    THEN [res EXCEPT !.errors =
            Append(@, SizeMismatchMsg(section.address, Len(section.data), Len(actual)))]
    ELSE LET mismatches == CompareFrom(section, actual, 0)
         IN  IF mismatches = <<>>
             THEN [res EXCEPT !.verified_sections = Append(@, section.address)]
             ELSE [res EXCEPT !.mismatched_sections = MapInsert(@, section.address, mismatches)]

\* The tail of verify_flash after the section loop.
Finalize(res, secs) ==
    [res EXCEPT !.total_sections = Len(secs),
                !.success = (res.errors = <<>>) /\ (DOMAIN res.mismatched_sections = {})]

\* What verify_flash hands back when a chunk read fails: `return Ok(result)`
\* from inside the chunk loop, with the error pushed.
AbortResult(res, addr, e) ==
    [res EXCEPT !.errors = Append(@, ReadErrorMsg(addr, e))]

FrameIdle == build = "release" /\ command = [kind |-> "none"] /\ frame = <<>> /\ fpc = "idle"
CrcIdle == bufA = <<>> /\ bufB = <<>> /\ crcA = [panic |-> FALSE, crc |-> 0]
           /\ crcB = [panic |-> FALSE, crc |-> 0] /\ cpc = "idle"
DecodeIdle == reply = <<>> /\ decoded = [kind |-> "none"] /\ dpc = "idle"
SessionIdle == sop = [op |-> "none"] /\ spc = "idle" /\ tx = <<>> /\ rx = <<>> /\ log = <<>>
               /\ caller = [op |-> "none"] /\ returned = <<>>
LoadIdle == headers = <<>> /\ image = <<>> /\ loaded = <<>> /\ li = 1 /\ lpc = "idle"
            /\ verifier = [kind |-> "none"] /\ memmap = [kind |-> "none"]
            /\ checksum = [kind |-> "none"]
SoftIdle == crc_data = <<>> /\ crc_length = 0 /\ crc32 = [panic |-> FALSE, bytes |-> <<>>] /\ kpc = "idle"
FrontIdle == mutex = [holder |-> -1, poisoned |-> FALSE] /\ tasks = <<>> /\ acks = <<>>
             /\ port = [handle |-> 0, open |-> FALSE] /\ wire = <<>> /\ owed = <<>>
             /\ poller = [pc |-> "idle", last_status |-> "None", seen |-> FALSE]
             /\ connected = FALSE /\ plugs = 0

VerifyInit ==
    /\ sections \in SectionLists
    /\ result = NewResult
    /\ sec = 1
    /\ flash_data = <<>>
    /\ current_addr = 0
    /\ remaining = 0
    /\ pc = "for_section"
    /\ calls = <<>>
    /\ rets = <<>>

\* for section in &self.sections { flash_data = new; current_addr = address; remaining = size
BeginSection ==
    /\ pc = "for_section"
    /\ sec <= Len(sections)
    /\ flash_data' = <<>>
    /\ current_addr' = sections[sec].address
    /\ remaining' = sections[sec].size
    /\ rets' = <<>>
    /\ pc' = "while_remaining"
    /\ UNCHANGED <<sections, result, sec, calls>>

\* while remaining > 0 { match read_flash(current_addr, chunk_size) { Ok(chunk) => ..
ReadChunkOk ==
    /\ pc = "while_remaining"
    /\ remaining > 0
    /\ LET chunk_size == ChunkSize(remaining)
       IN  \E chunk \in ChunkReturns(chunk_size) :
             /\ calls' = Append(calls, [section |-> sec, address |-> current_addr,
                                        length |-> chunk_size, ok |-> TRUE])
             /\ rets' = Append(rets, chunk)
             /\ flash_data' = flash_data \o Resize(chunk, chunk_size)
             /\ current_addr' = current_addr + chunk_size
             /\ remaining' = remaining - chunk_size
    /\ UNCHANGED <<sections, result, sec, pc>>

\* Mutant of ReadChunkErr: the failure is recorded and the run goes on with
\* the next section instead of returning.
ReadChunkErrContinue ==
    /\ pc = "while_remaining"
    /\ remaining > 0
    /\ LET chunk_size == ChunkSize(remaining)
       IN  \E e \in ReadErrSet :
             /\ calls' = Append(calls, [section |-> sec, address |-> current_addr,
                                        length |-> chunk_size, ok |-> FALSE])
             /\ result' = AbortResult(result, current_addr, e)
    /\ sec' = sec + 1
    /\ pc' = "for_section"
    /\ UNCHANGED <<sections, flash_data, current_addr, remaining, rets>>

\* .. Err(e) => { result.errors.push(..); return Ok(result); }
ReadChunkErr ==
    /\ pc = "while_remaining"
    /\ remaining > 0
    /\ LET chunk_size == ChunkSize(remaining)
       IN  \E e \in ReadErrSet :
             /\ calls' = Append(calls, [section |-> sec, address |-> current_addr,
                                        length |-> chunk_size, ok |-> FALSE])
             /\ result' = AbortResult(result, current_addr, e)
    /\ pc' = "returned"
    /\ UNCHANGED <<sections, sec, flash_data, current_addr, remaining, rets>>

\* chunk loop over: compare, record, go to the next section
CompareSection ==
    /\ pc = "while_remaining"
    /\ remaining = 0
    /\ result' = RecordSection(result, sections[sec], flash_data)
    /\ sec' = sec + 1
    /\ pc' = "for_section"
    /\ UNCHANGED <<sections, flash_data, current_addr, remaining, calls, rets>>

\* section loop over: total_sections, success, Ok(result)
FinishVerify ==
    /\ pc = "for_section"
    /\ sec > Len(sections)
    /\ result' = Finalize(result, sections)
    /\ pc' = "returned"
    /\ UNCHANGED <<sections, sec, flash_data, current_addr, remaining, calls, rets>>

Init == VerifyInit /\ FrameIdle /\ CrcIdle /\ DecodeIdle /\ SessionIdle /\ LoadIdle /\ SoftIdle /\ FrontIdle

Next ==
    \/ BeginSection /\ UNCHANGED <<frameVars, crcVars, decodeVars, sessionVars, loadVars, softVars, frontVars>>
    \/ ReadChunkOk /\ UNCHANGED <<frameVars, crcVars, decodeVars, sessionVars, loadVars, softVars, frontVars>>
    \/ ReadChunkErr /\ UNCHANGED <<frameVars, crcVars, decodeVars, sessionVars, loadVars, softVars, frontVars>>
    \/ CompareSection /\ UNCHANGED <<frameVars, crcVars, decodeVars, sessionVars, loadVars, softVars, frontVars>>
    \/ FinishVerify /\ UNCHANGED <<frameVars, crcVars, decodeVars, sessionVars, loadVars, softVars, frontVars>>

Spec == Init /\ [][Next]_vars

\* verify_flash is one sequential loop: while a step is possible (the
\* read-back function has returned) the next step is taken.
\* The runs start from the section lists in the primary flash window.
TerminationLists == {secs \in SectionLists : \A k \in 1..Len(secs) : secs[k].address = 0}
TerminationInit ==
    /\ sections \in TerminationLists
    /\ result = NewResult
    /\ sec = 1
    /\ flash_data = <<>>
    /\ current_addr = 0
    /\ remaining = 0
    /\ pc = "for_section"
    /\ calls = <<>>
    /\ rets = <<>>
TerminationSpecInit ==
    TerminationInit /\ FrameIdle /\ CrcIdle /\ DecodeIdle /\ SessionIdle /\ LoadIdle /\ SoftIdle
    /\ FrontIdle

TerminationSpec == TerminationSpecInit /\ [][Next]_vars /\ WF_vars(Next)

----------------------------------------------------------------------------
(* Frame codec: src/src/protocol.rs *)

HEADER == <<255, 249>>
FOOTER == <<245, 231>>
MAX_DATA_LENGTH == 4096
HALT_COMMAND == 193
RESUME_COMMAND == 194
READ_WORD == 195
READ_BYTES_COMMAND == 198
READ_WORDS_COMMAND == 199
WRITE_COMMAND == 196
WORD_SIZE == 4
U8_BITS == 8
CRC_POLY == 7

\* a ^ b on the low n bits
RECURSIVE XorBits(_, _, _)
XorBits(a, b, n) ==
    IF n = 0 THEN 0
    ELSE ((a + b) % 2) + 2 * XorBits(a \div 2, b \div 2, n - 1)

Xor8(a, b) == XorBits(a, b, 8)

\* Mutant of CrcShift: the polynomial is never folded in.
CrcShiftNoPoly(crc) == (crc * 2) % 256

\* crc = if (crc & 0x80) != 0 { (crc << 1) ^ 0x07 } else { crc << 1 }   (u8)
CrcShift(crc) ==
    IF crc >= 128 THEN Xor8((crc * 2) % 256, CRC_POLY) ELSE (crc * 2) % 256

\* for _ in 0..8 { .. }
RECURSIVE CrcShifts(_, _)
CrcShifts(crc, n) == IF n = 0 THEN crc ELSE CrcShifts(CrcShift(crc), n - 1)

\* One round of the byte loop: crc ^= data[i]; then the eight shifts.
CrcByte(crc, byte) == CrcShifts(Xor8(crc, byte), 8)

\* The byte loop over the 0-based indices lo .. hi-1, split in halves so that
\* long buffers do not nest deeply (the test on `first` makes the first half
\* a value before the second half starts).
RECURSIVE CrcRange(_, _, _, _)
CrcRange(crc, data, lo, hi) ==
    IF lo >= hi THEN crc
    ELSE IF hi - lo = 1 THEN CrcByte(crc, data[lo + 1])
    ELSE LET mid == (lo + hi) \div 2
             first == CrcRange(crc, data, lo, mid)
         IN  IF first >= 0 THEN CrcRange(first, data, mid, hi) ELSE 0

\* The index range of `for i in 2..length - 3` (0-based, hi exclusive).
CrcSpan(length) == [lo |-> 2, hi |-> length - 3]

\* ProtocolHandler::compute_crc(data, length).  `length - 3` is a usize
\* subtraction: below 3 a debug build aborts on the underflow, and a release
\* build wraps to a huge bound and aborts on the first index past the buffer;
\* an index past the end of data aborts in both.
compute_crc(data, length) ==
    IF length < 3 \/ (CrcSpan(length).hi > CrcSpan(length).lo /\ CrcSpan(length).hi > Len(data))
    THEN [panic |-> TRUE, crc |-> 0]
    ELSE [panic |-> FALSE,
          crc |-> CrcRange(0, data, CrcSpan(length).lo, CrcSpan(length).hi)]

\* A u32 address is kept as its two 16-bit halves (TLC integers are 32-bit
\* signed): start_address = hi * 65536 + lo.
W32(hi, lo) == [hi |-> hi, lo |-> lo]

\* Mutant of AddressBytes: least significant byte first.
AddressBytesLE(a) == <<a.lo % 256, a.lo \div 256, a.hi % 256, a.hi \div 256>>

\* (a >> 24) as u8, (a >> 16) as u8, (a >> 8) as u8, (a & 0xff) as u8
AddressBytes(a) == <<a.hi \div 256, a.hi % 256, a.lo \div 256, a.lo % 256>>

\* (length >> 8) as u8, (length & 0xff) as u8
LengthBytes(length) == <<(length \div 256) % 256, length % 256>>

\* Mutant of FrameLength: the checksum byte is not counted.
FrameLengthNoCrc(data_len) == (data_len - (Len(HEADER) + Len(FOOTER) + 2) - 1) % 65536

\* (data.len() - (HEADER.len() + FOOTER.len() + 2)) as u16
FrameLength(data_len) == (data_len - (Len(HEADER) + Len(FOOTER) + 2)) % 65536

\* The common tail of every arm of write_frame: placeholder checksum and
\* footer are pushed, then the length field and the checksum are written in
\* place.  body is opcode and fields.
SealFrame(body) ==
    LET data == HEADER \o <<0, 0>> \o body \o <<0>> \o FOOTER
        data_len == Len(data)
        length == FrameLength(data_len)
        withLen == [data EXCEPT ![3] = length \div 256, ![4] = length % 256]
        crc == compute_crc(withLen, data_len).crc
    IN  [withLen EXCEPT ![data_len - 2] = crc]

\* The guard of the ReadWords arm: length * WORD_SIZE * u8::BITS > MAX_DATA_LENGTH
\* in u32.  The product is 32 * length; at length >= 2^27 it passes 2^32, where
\* a debug build aborts and a release build keeps 32 * (length mod 2^27).
ReadWordsOverflow(length) == length >= 134217728
ReadWordsRejected(length, profile) ==
    IF ReadWordsOverflow(length) /\ profile = "debug"
    THEN TRUE
    ELSE (length % 134217728) > MAX_DATA_LENGTH \div (WORD_SIZE * U8_BITS)

\* Mutant of PayloadRejected: the limit itself is refused.
PayloadRejectedAtLimit(n) == n >= MAX_DATA_LENGTH

\* The guard of the ReadBytes arm, `*length > 4096`, and of the Write arm,
\* `write_data.len() > MAX_DATA_LENGTH`
PayloadRejected(n) == n > MAX_DATA_LENGTH

NoFrame == [panic |-> TRUE, data |-> <<>>]
Framed(body) == [panic |-> FALSE, data |-> SealFrame(body)]

\* ProtocolHandler::write_frame
write_frame(cmd, profile) ==
    CASE cmd.kind = "Halt" -> Framed(<<HALT_COMMAND>>)
      [] cmd.kind = "Resume" -> Framed(<<RESUME_COMMAND>>)
      [] cmd.kind = "ReadBytes" ->
            IF PayloadRejected(cmd.length) THEN NoFrame
            ELSE Framed(<<READ_BYTES_COMMAND>> \o AddressBytes(cmd.start_address)
                        \o LengthBytes(cmd.length))
      [] cmd.kind = "ReadWord" ->
            Framed(<<READ_WORD>> \o AddressBytes(cmd.start_address))
      [] cmd.kind = "ReadWords" ->
            IF ReadWordsRejected(cmd.length, profile) THEN NoFrame
            ELSE Framed(<<READ_WORDS_COMMAND>> \o AddressBytes(cmd.start_address)
                        \o LengthBytes(cmd.length))
      [] cmd.kind = "Write" ->
            IF PayloadRejected(Len(cmd.write_data)) THEN NoFrame
            ELSE Framed(<<WRITE_COMMAND>> \o AddressBytes(cmd.write_address)
                        \o cmd.write_data)

\* Inputs of the codec.
BuildSet == {"debug", "release"}
\* Addresses: 0x00000000, 0x01020304, 0x20000100, 0xE000EDF4
FrameAddrSet == {W32(0, 0), W32(258, 772), W32(8192, 256), W32(57344, 60916)}
\* ReadBytes lengths around the byte boundary and around MAX_DATA_LENGTH
ReadLenSet == {0, 1, 4, 255, 256, 4095, 4096, 4097, 65536}
\* ReadWords counts around the guard and around the u32 overflow of the product
ReadCountSet == {0, 1, 4, 128, 129, 1024, 1025, 134217728, 134217729}
\* Write payloads: every byte string over PayloadBytes up to MaxSmallPayload
\* bytes, and patterned payloads of the sizes of LongPayloadSizes.
MaxSmallPayload == 2
PayloadBytes == {0, 90, 255}
LongPayloadSizes == {255, 256, 4095, 4096, 4097}
Pattern(n) == [k \in 1..n |-> (k * 37) % 256]
WriteDataSet ==
    UNION { [1..n -> PayloadBytes] : n \in 0..MaxSmallPayload }
    \cup { Pattern(n) : n \in LongPayloadSizes }

CommandSet ==
    { [kind |-> "Halt"], [kind |-> "Resume"] }
    \cup { [kind |-> "ReadBytes", start_address |-> a, length |-> n] :
            a \in FrameAddrSet, n \in ReadLenSet }
    \cup { [kind |-> "ReadWord", start_address |-> a] : a \in FrameAddrSet }
    \cup { [kind |-> "ReadWords", start_address |-> a, length |-> n] :
            a \in FrameAddrSet, n \in ReadCountSet }
    \cup { [kind |-> "Write", write_address |-> a, write_data |-> d] :
            a \in FrameAddrSet, d \in WriteDataSet }

VerifyIdle ==
    /\ sections = <<>> /\ result = NewResult /\ sec = 1 /\ flash_data = <<>>
    /\ current_addr = 0 /\ remaining = 0 /\ pc = "idle" /\ calls = <<>> /\ rets = <<>>

\* ProtocolHandler::new(command)
FrameInit ==
    /\ build \in BuildSet
    /\ command \in CommandSet
    /\ frame = <<>>
    /\ fpc = "new"

\* command.write_frame(): the frame, or an abort that leaves none
WriteFrame ==
    /\ fpc = "new"
    /\ LET out == write_frame(command, build)
       IN  /\ frame' = out.data
           /\ fpc' = IF out.panic THEN "panicked" ELSE "written"
    /\ UNCHANGED <<build, command>>

Take(s, n) == SubSeq(s, 1, n)
Drop(s, n) == SubSeq(s, n + 1, Len(s))

\* s is the start of f, or all of it
IsPrefix(s, f) == Len(s) <= Len(f) /\ s = Take(f, Len(s))

\* Outcomes of the two port calls that send a frame of n bytes.  write_all
\* hands the bytes to the port's write() until all of them are accepted, so
\* it fails after the port has accepted any k < n of them, which stay
\* written; flush fails after all n are out; or both succeed.
PortWriteSet(n) ==
    { [io |-> "write_failed", accepted |-> k] : k \in 0..(n - 1) }
    \cup { [io |-> "flush_failed", accepted |-> n], [io |-> "ok", accepted |-> n] }

\* self.port.write_all(&command.write_frame()); self.port.flush(): the
\* frame write_frame returned goes to the port, all of it or, when the port
\* fails, the bytes accepted before the failure; an abort inside
\* write_frame comes before it.
WriteAll ==
    /\ fpc = "written"
    /\ \E o \in PortWriteSet(Len(frame)) :
          /\ tx' = tx \o Take(frame, o.accepted)
          /\ fpc' = IF o.io = "ok" THEN "sent" ELSE "failed"
    /\ UNCHANGED <<build, command, frame, sop, spc, rx, log, caller, returned>>

FrameNext ==
    \/ WriteFrame /\ UNCHANGED <<verifyVars, crcVars, decodeVars, sessionVars, loadVars, softVars, frontVars>>
    \/ WriteAll /\ UNCHANGED <<verifyVars, crcVars, decodeVars, loadVars, softVars, frontVars>>

FrameSpecInit == FrameInit /\ VerifyIdle /\ CrcIdle /\ DecodeIdle /\ SessionIdle /\ LoadIdle /\ SoftIdle /\ FrontIdle

FrameSpec == FrameSpecInit /\ [][FrameNext]_vars

\* Buffers handed to compute_crc: every byte string over CrcByteSet up to
\* MaxBufLen bytes (8 bytes is the shortest frame: the span then holds the
\* length field and the opcode), and the Halt frame ff f9 00 02 c1 63 f5 e7
\* with its length field as written and changed to 00 03.
MaxBufLen == 8
CrcByteSet == {0, 255}
HaltFramePair ==
    { <<255, 249, 0, 2, 193, 99, 245, 231>>, <<255, 249, 0, 3, 193, 99, 245, 231>> }
BufSet == UNION { [1..n -> CrcByteSet] : n \in 0..MaxBufLen } \cup HaltFramePair

CrcInit ==
    /\ bufA \in BufSet
    /\ bufB \in {b \in BufSet : Len(b) = Len(bufA)}
    /\ crcA = [panic |-> FALSE, crc |-> 0]
    /\ crcB = [panic |-> FALSE, crc |-> 0]
    /\ cpc = "new"

\* Self::compute_crc(data, data.len()) on both buffers
ComputeCrc ==
    /\ cpc = "new"
    /\ crcA' = compute_crc(bufA, Len(bufA))
    /\ crcB' = compute_crc(bufB, Len(bufB))
    /\ cpc' = "done"
    /\ UNCHANGED <<bufA, bufB>>

CrcNext == ComputeCrc /\ UNCHANGED <<verifyVars, frameVars, decodeVars, sessionVars, loadVars, softVars, frontVars>>

CrcSpecInit == CrcInit /\ VerifyIdle /\ FrameIdle /\ DecodeIdle /\ SessionIdle /\ LoadIdle /\ SoftIdle /\ FrontIdle

CrcSpec == CrcSpecInit /\ [][CrcNext]_vars

\* The byte b with bit k inverted (k = 0 is the least significant bit)
FlipBit(b, k) == IF (b \div (2 ^ k)) % 2 = 1 THEN b - 2 ^ k ELSE b + 2 ^ k

\* The buffer with bit k of the byte at 1-based position p inverted
FlipAt(buf, p, k) == [buf EXCEPT ![p] = FlipBit(@, k)]

\* Buffers whose single bits are flipped
MaxFlipLen == 8
FlipByteSet == {0, 165}
FlipBufSet == UNION { [1..n -> FlipByteSet] : n \in 1..MaxFlipLen }

\* bufB is bufA with one bit of one byte inverted
CrcFlipInit ==
    /\ bufA \in FlipBufSet
    /\ bufB \in {FlipAt(bufA, p, k) : p \in 1..Len(bufA), k \in 0..7}
    /\ crcA = [panic |-> FALSE, crc |-> 0]
    /\ crcB = [panic |-> FALSE, crc |-> 0]
    /\ cpc = "new"

CrcFlipSpecInit == CrcFlipInit /\ VerifyIdle /\ FrameIdle /\ DecodeIdle /\ SessionIdle /\ LoadIdle /\ SoftIdle /\ FrontIdle

CrcFlipSpec == CrcFlipSpecInit /\ [][CrcNext]_vars

----------------------------------------------------------------------------
(* SerialLoader::software_crc: src/src/loader.rs *)

\* const CRC32_POLYNOMIAL: u32 = 0xedb88320, and the seed 0xffffffff
CRC32_POLYNOMIAL == W32(60856, 33568)
CRC32_SEED == W32(65535, 65535)

\* a ^ b on bytes, tabulated; on 16-bit halves; on u32 values kept as
\* halves; and a >> 1
XorByte == [a \in 0..255 |-> [b \in 0..255 |-> XorBits(a, b, 8)]]
Xor16(a, b) == XorByte[a \div 256][b \div 256] * 256 + XorByte[a % 256][b % 256]
Xor32(a, b) == W32(Xor16(a.hi, b.hi), Xor16(a.lo, b.lo))
Shr1(a) == W32(a.hi \div 2, (a.hi % 2) * 32768 + a.lo \div 2)

\* Mutant of Crc32Step: the polynomial is folded in whatever the low bit.
Crc32StepNoMask(crc) == Xor32(Shr1(crc), CRC32_POLYNOMIAL)

\* let mask = (crc & 1).wrapping_neg(); crc = (crc >> 1) ^ (POLYNOMIAL & mask)
Crc32Step(crc) ==
    IF crc.lo % 2 = 1 THEN Xor32(Shr1(crc), CRC32_POLYNOMIAL) ELSE Shr1(crc)

\* for _ in 0..8
RECURSIVE Crc32Steps(_, _)
Crc32Steps(crc, n) ==
    IF n = 0 THEN crc
    ELSE LET next == Crc32Step(crc)
         IN  IF next.lo >= 0 THEN Crc32Steps(next, n - 1) ELSE next

\* crc = crc ^ byte, then the eight steps
Crc32Byte(crc, byte) == Crc32Steps(W32(crc.hi, Xor16(crc.lo, byte)), U8_BITS)

\* for i in 0..length over data[i] (0-based)
RECURSIVE Crc32Loop(_, _, _, _)
Crc32Loop(crc, data, i, length) ==
    IF i >= length THEN crc
    ELSE LET next == Crc32Byte(crc, data[i + 1])
         IN  IF next.lo >= 0 THEN Crc32Loop(next, data, i + 1, length) ELSE next

\* The four bytes of a u32, least significant first
LeBytes32(a) == <<a.lo % 256, a.lo \div 256, a.hi % 256, a.hi \div 256>>

\* SerialLoader::software_crc(data, length): data[i] beyond the slice is an
\* index panic.
software_crc(data, length) ==
    IF length > Len(data)
    THEN [panic |-> TRUE, bytes |-> <<>>]
    ELSE [panic |-> FALSE, bytes |-> LeBytes32(Crc32Loop(CRC32_SEED, data, 0, length))]

\* Inputs of software_crc: short buffers, and the nine digits "123456789"
MaxSoftLen == 4
SoftByteSet == {0, 49, 255}
CheckString == <<49, 50, 51, 52, 53, 54, 55, 56, 57>>
SoftBufSet == UNION { [1..n -> SoftByteSet] : n \in 0..MaxSoftLen } \cup {CheckString}

SoftCrcInit ==
    /\ crc_data \in SoftBufSet
    /\ crc_length \in 0..(Len(crc_data) + 1)
    /\ crc32 = [panic |-> FALSE, bytes |-> <<>>]
    /\ kpc = "new"

\* Self::software_crc(data, length)
SoftwareCrc ==
    /\ kpc = "new"
    /\ crc32' = software_crc(crc_data, crc_length)
    /\ kpc' = "done"
    /\ UNCHANGED <<crc_data, crc_length>>

SoftCrcNext == SoftwareCrc /\ UNCHANGED <<verifyVars, frameVars, crcVars, decodeVars, sessionVars, loadVars, frontVars>>

SoftCrcSpecInit ==
    SoftCrcInit /\ VerifyIdle /\ FrameIdle /\ CrcIdle /\ DecodeIdle /\ SessionIdle /\ LoadIdle
    /\ FrontIdle

SoftCrcSpec == SoftCrcSpecInit /\ [][SoftCrcNext]_vars

----------------------------------------------------------------------------
(* ProtocolHandler::read_frame *)

ACK_OFFSET == 5
HALT_ACK == 209
HALT_ERROR == 225
RESUME_ACK == 209
RESUME_ERROR == 225
READ_ACK == 210
READ_ERROR == 227
WRITE_ACK == 209
WRITE_ERROR == 225

\* The three ways a read_frame call ends: Ok(bytes), Err(message), or an
\* abort of the program (index out of range, usize underflow).
DecodeOk(bytes) == [kind |-> "Ok", value |-> bytes]
DecodeErr(msg) == [kind |-> "Err", message |-> msg]
DecodePanic == [kind |-> "panic"]

\* Mutant of PayloadSlice: the slice starts at the acknowledgement byte.
PayloadSliceFromAck(data, n) ==
    IF ACK_OFFSET + n + 1 <= Len(data)
    THEN DecodeOk(SubSeq(data, ACK_OFFSET + 1, ACK_OFFSET + n))
    ELSE DecodePanic

\* Ok(data[ACK_OFFSET + 1..ACK_OFFSET + n + 1].to_vec()); a range that ends
\* past the buffer aborts.
PayloadSlice(data, n) ==
    IF ACK_OFFSET + n + 1 <= Len(data)
    THEN DecodeOk(SubSeq(data, ACK_OFFSET + 2, ACK_OFFSET + n + 1))
    ELSE DecodePanic

\* Mutant of MatchAck: every byte other than the acknowledgement is reported
\* as the device's error code.
MatchAckNoUnknown(code, ack, err, onAck, failed, unknown) ==
    IF code = ack THEN onAck ELSE DecodeErr(failed)

\* match data[ACK_OFFSET] { ACK => onAck, ERROR => Err(failed), _ => Err(unknown) }
MatchAck(code, ack, err, onAck, failed, unknown) ==
    IF code = ack THEN onAck
    ELSE IF code = err THEN DecodeErr(failed)
    ELSE DecodeErr(unknown)

\* `crc != data[data.len() - 3]`, the condition of the empty if of read_frame
CrcMismatch(data) == compute_crc(data, Len(data)).crc # data[Len(data) - 2]

\* `match &self.command { .. }` of read_frame; data[ACK_OFFSET] aborts on
\* fewer than 6 bytes.
MatchCommand(cmd, data) ==
    IF ACK_OFFSET >= Len(data) THEN DecodePanic
    ELSE LET code == data[ACK_OFFSET + 1]
         IN  CASE cmd.kind = "Halt" ->
                    MatchAck(code, HALT_ACK, HALT_ERROR, DecodeOk(<<HALT_ACK>>),
                             "Halt command failed", "Unknown response to Halt command")
               [] cmd.kind = "Resume" ->
                    MatchAck(code, RESUME_ACK, RESUME_ERROR, DecodeOk(<<RESUME_ACK>>),
                             "Halt command failed", "Unknown response to Halt command")
               [] cmd.kind = "ReadBytes" ->
                    MatchAck(code, READ_ACK, READ_ERROR, PayloadSlice(data, cmd.length),
                             "Read command failed", "Unknown response to Read command")
               [] cmd.kind = "ReadWord" ->
                    MatchAck(code, READ_ACK, READ_ERROR, PayloadSlice(data, 4),
                             "Read command failed", "Unknown response to Read command")
               [] cmd.kind = "ReadWords" ->
                    MatchAck(code, READ_ACK, READ_ERROR, PayloadSlice(data, cmd.length),
                             "Read command failed", "Unknown response to Read command")
               [] cmd.kind = "Write" ->
                    MatchAck(code, WRITE_ACK, WRITE_ERROR, DecodeOk(<<WRITE_ACK>>),
                             "Write command failed", "Unknown response to Write command")

\* ProtocolHandler::read_frame(data).  compute_crc comes first and aborts on
\* fewer than 3 bytes; the body of the checksum test is empty (its return is
\* commented out), so both of its outcomes continue to the match.
read_frame(cmd, data) ==
    IF compute_crc(data, Len(data)).panic THEN DecodePanic
    ELSE IF CrcMismatch(data) THEN MatchCommand(cmd, data)
    ELSE MatchCommand(cmd, data)

\* Commands whose replies are decoded
MaxReadLength == 4
MaxWordCount == 1
DecodeCommandSet ==
    { [kind |-> "Halt"], [kind |-> "Resume"],
      [kind |-> "Write", write_address |-> W32(8192, 256), write_data |-> <<1, 2, 3, 4>>],
      [kind |-> "ReadWord", start_address |-> W32(8192, 256)] }
    \cup { [kind |-> "ReadBytes", start_address |-> W32(8192, 256), length |-> n] :
            n \in 0..MaxReadLength }
    \cup { [kind |-> "ReadWords", start_address |-> W32(8192, 256), length |-> n] :
            n \in 0..MaxWordCount }

\* Opcode of each command kind: C1, C2, C3, C4, C6, C7
OpcodeOf(kind) ==
    CASE kind = "Halt" -> 193
      [] kind = "Resume" -> 194
      [] kind = "ReadWord" -> 195
      [] kind = "Write" -> 196
      [] kind = "ReadBytes" -> 198
      [] kind = "ReadWords" -> 199

\* A reply frame as read_frame lays it out: header, length field, one byte at
\* offset 4, the response code at offset 5, the payload, the checksum third
\* from the end, the footer.  crcOk = FALSE inverts the checksum byte.
ReplyFrame(byte4, code, payload, crcOk) ==
    LET f == SealFrame(<<byte4, code>> \o payload)
    IN  IF crcOk THEN f ELSE [f EXCEPT ![Len(f) - 2] = Xor8(@, 255)]

\* Reply buffers: every frame over the codes, payloads up to MaxReplyPayload
\* bytes, a right or wrong checksum, and every prefix of such a frame.
MaxReplyPayload == 4
ReplyCodeSet == {HALT_ACK, READ_ACK, HALT_ERROR, READ_ERROR, 0}
ReplyByteSet == {17, 210}
ReplyPayloadSet == UNION { [1..n -> ReplyByteSet] : n \in 0..MaxReplyPayload }
ReplyFrameSet(kind) ==
    { ReplyFrame(b4, code, p, ok) :
        b4 \in {OpcodeOf(kind), READ_ACK}, code \in ReplyCodeSet,
        p \in ReplyPayloadSet, ok \in BOOLEAN }
ReplyBufSet(kind) ==
    UNION { { SubSeq(f, 1, k) : k \in 0..Len(f) } : f \in ReplyFrameSet(kind) }

\* ProtocolHandler::new(command) and a buffer received for it.  read_frame
\* ends the same way in both build profiles.
DecodeInit ==
    /\ build = "release"
    /\ command \in DecodeCommandSet
    /\ frame = <<>>
    /\ fpc = "idle"
    /\ reply \in ReplyBufSet(command.kind)
    /\ decoded = [kind |-> "none"]
    /\ dpc = "new"

\* handler.read_frame(&reply)
ReadFrame ==
    /\ dpc = "new"
    /\ decoded' = read_frame(command, reply)
    /\ dpc' = "done"
    /\ UNCHANGED reply

DecodeNext == ReadFrame /\ UNCHANGED <<verifyVars, frameVars, crcVars, sessionVars, loadVars, softVars, frontVars>>

DecodeSpecInit == DecodeInit /\ VerifyIdle /\ CrcIdle /\ SessionIdle /\ LoadIdle /\ SoftIdle /\ FrontIdle

DecodeSpec == DecodeSpecInit /\ [][DecodeNext]_vars

----------------------------------------------------------------------------
(* SerialLoader: the operations of a session over the serial port *)


\* What an operation hands back: Ok(value), Err(message), or an abort of the
\* program.
SessionOk(v) == [kind |-> "Ok", value |-> v]
SessionErr(msg) == [kind |-> "Err", message |-> msg]
SessionPanic == [kind |-> "panic"]
Pending == [kind |-> "pending"]

\* u32::from_le_bytes(buffer[..4]), as 16-bit halves
FromLeBytes(b) == W32(b[4] * 256 + b[3], b[2] * 256 + b[1])

\* Mutant of WordBytes: least significant byte first.
WordBytesLE(value) ==
    <<value.lo % 256, value.lo \div 256, value.hi % 256, value.hi \div 256>>

\* write_data of write_word: ((value >> 24) & 0xff) as u8, ((value >> 16) &
\* 0xff) as u8, ((value >> 8) & 0xff) as u8, (value & 0xff) as u8
WordBytes(value) ==
    <<value.hi \div 256, value.hi % 256, value.lo \div 256, value.lo % 256>>

\* The SWDCommand each operation builds.
CommandOf(call) ==
    CASE call.op = "halt" -> [kind |-> "Halt"]
      [] call.op = "resume" -> [kind |-> "Resume"]
      [] call.op = "write_word" ->
            [kind |-> "Write", write_address |-> call.address,
             write_data |-> WordBytes(call.value)]
      [] call.op = "read_bytes" ->
            [kind |-> "ReadBytes", start_address |-> call.address, length |-> call.length]
      [] call.op = "read_word" -> [kind |-> "ReadWord", start_address |-> call.address]
      [] call.op = "read_words" ->
            [kind |-> "ReadWords", start_address |-> call.address, length |-> call.length]

\* Calls made on a session
MaxOps == 2
SessionAddr == W32(8192, 256)
SessionLenSet == {0, 4, 4097}
SessionCountSet == {0, 1}
CallSet ==
    { [op |-> "halt"], [op |-> "resume"],
      [op |-> "write_word", address |-> SessionAddr, value |-> W32(4660, 22136)],
      [op |-> "read_word", address |-> SessionAddr] }
    \cup { [op |-> "read_bytes", address |-> SessionAddr, length |-> n] : n \in SessionLenSet }
    \cup { [op |-> "read_words", address |-> SessionAddr, length |-> n] : n \in SessionCountSet }

\* Payload bytes the reply to a command carries after the acknowledgement:
\* the requested length, 4 for a word, 4 per word.
ReplyPayloadLen(cmd) ==
    CASE cmd.kind = "ReadBytes" -> cmd.length
      [] cmd.kind = "ReadWord" -> WORD_SIZE
      [] cmd.kind = "ReadWords" -> cmd.length * WORD_SIZE
      [] OTHER -> 0

\* The device's answers to a request: one whole reply frame with the
\* acknowledgement of the command and a payload, with its error code, or
\* with a code that is neither.
DeviceAck(kind) == IF kind \in {"ReadBytes", "ReadWord", "ReadWords"} THEN READ_ACK ELSE HALT_ACK
DeviceError(kind) == IF kind \in {"ReadBytes", "ReadWord", "ReadWords"} THEN READ_ERROR ELSE HALT_ERROR
DevicePayloads(n) == { [k \in 1..n |-> 16 + k], [k \in 1..n |-> 160] }
DeviceReplies(cmd) ==
    { ReplyFrame(OpcodeOf(cmd.kind), DeviceAck(cmd.kind), p, TRUE) :
        p \in DevicePayloads(ReplyPayloadLen(cmd)) }
    \cup { ReplyFrame(OpcodeOf(cmd.kind), code, <<>>, TRUE) :
        code \in {DeviceError(cmd.kind), 0} }

\* Constants of read_register and read_pc_register: DCRSR 0xe000edf4 in
\* both; DCRDR 0xe000edf8 in read_register and 0x00000100 in
\* read_pc_register; PC_REG_INDEX 0x04.
DCRSR_ADDR == W32(57344, 60916)
DCRDR_ADDR == W32(57344, 60920)
PC_DCRDR_ADDR == W32(0, 256)
PC_REG_INDEX == 4

\* Register indices handed to read_register: R0 and PC of main.rs
RegIndexSet == {0, 15}
CompositeSet ==
    { [op |-> "read_register", reg_index |-> i] : i \in RegIndexSet }
    \cup { [op |-> "read_pc_register"] }

\* The index each of the two writes to DCRSR and the address each reads.
SelectValue(c) ==
    IF c.op = "read_register" THEN W32(0, c.reg_index) ELSE W32(0, PC_REG_INDEX)
DataAddress(c) == IF c.op = "read_register" THEN DCRDR_ADDR ELSE PC_DCRDR_ADDR

\* Every call that reaches the port: the calls from outside and the steps of
\* the composite operations.
StepCallSet ==
    CallSet
    \cup { [op |-> "write_word", address |-> DCRSR_ADDR, value |-> SelectValue(c)] :
            c \in CompositeSet }
    \cup { [op |-> "read_words", address |-> DataAddress(c), length |-> 1] :
            c \in CompositeSet }

\* command.write_frame() for each call and build profile, and the device's
\* possible answers to each call, tabulated.
RequestFrame == [b \in BuildSet, call \in StepCallSet |-> write_frame(CommandOf(call), b)]
AnswerSet == [call \in StepCallSet |-> DeviceReplies(CommandOf(call))]

\* SerialLoader::new: the port is open and nothing has been exchanged.
SessionInit ==
    /\ sop = [op |-> "none"]
    /\ spc = "idle"
    /\ tx = <<>>
    /\ rx = <<>>
    /\ log = <<>>
    /\ caller = [op |-> "none"]
    /\ returned = <<>>

\* The operation that is in progress has made its one read of the port and
\* returns res.
Finish(res) ==
    /\ log' = [log EXCEPT ![Len(log)].result = res, ![Len(log)].reads = @ + 1]
    /\ spc' = IF res.kind = "panic" THEN "panicked" ELSE "idle"
    /\ UNCHANGED <<sop, tx, caller, returned>>

\* The first lines of every operation: ProtocolHandler::new(..), then
\* self.port.write_all(&command.write_frame())?; self.port.flush()?;
\* an abort inside write_frame ends the program before anything is written,
\* and a failure of write_all or flush is returned by `?` before any read,
\* with the bytes the port had accepted left on the line.
Request(call) ==
    /\ spc = "idle"
    /\ \E o \in PortWriteSet(Len(RequestFrame[build, call].data)) :
          LET out == RequestFrame[build, call]
              wrote == IF out.panic THEN <<>> ELSE Take(out.data, o.accepted)
              res == IF out.panic THEN SessionPanic
                     ELSE IF o.io = "ok" THEN Pending
                     ELSE SessionErr("port write failed")
          IN  /\ sop' = call
              /\ tx' = tx \o wrote
              /\ spc' = IF out.panic THEN "panicked"
                        ELSE IF o.io = "ok" THEN "sent" ELSE "idle"
              /\ log' = Append(log, [call |-> call, sent |-> wrote, reads |-> 0,
                                     reply |-> <<>>, result |-> res])
    /\ UNCHANGED rx

\* A call of halt, resume, write_word, read_bytes, read_word or read_words
\* from outside the loader.
SendRequest ==
    /\ caller.op = "none"
    /\ Len(log) < MaxOps
    /\ \E call \in CallSet : Request(call)
    /\ UNCHANGED <<caller, returned>>

\* The device answers the request that is waiting.
DeviceReply ==
    /\ spc = "sent"
    /\ log[Len(log)].reply = <<>>
    /\ \E f \in AnswerSet[sop] :
          /\ rx' = rx \o f
          /\ log' = [log EXCEPT ![Len(log)].reply = f]
    /\ UNCHANGED <<sop, spc, tx, caller, returned>>

\* self.port.read(&mut [0; 256]) takes up to 256 of the bytes that have
\* arrived.
ReadSome == Min(256, Len(rx))

\* halt after the request: one read whose outcome is ignored, then Ok(()).
halt ==
    /\ spc = "sent" /\ sop.op = "halt"
    /\ rx' = Drop(rx, ReadSome)
    /\ Finish(SessionOk(<<>>))

\* resume after the request: a read that returns bytes reaches todo!(); a
\* read that times out is ignored and the operation returns Ok(()).
resume ==
    /\ spc = "sent" /\ sop.op = "resume"
    /\ rx' = Drop(rx, ReadSome)
    /\ Finish(IF rx # <<>> THEN SessionPanic ELSE SessionOk(<<>>))

\* write_word after the request: as halt.
write_word ==
    /\ spc = "sent" /\ sop.op = "write_word"
    /\ rx' = Drop(rx, ReadSome)
    /\ Finish(SessionOk(<<>>))

\* self.port.read_exact(&mut buffer) for a buffer of n bytes: the first n
\* bytes of the channel, or a timeout that has consumed what was there.
ReadExactOk(n) == Len(rx) >= n
AfterReadExact(n) == IF ReadExactOk(n) THEN Drop(rx, n) ELSE <<>>

\* Mutant of read_bytes: a short read sends the request a second time and
\* reads again.
read_bytes_retry ==
    /\ spc = "sent" /\ sop.op = "read_bytes"
    /\ IF ReadExactOk(sop.length) \/ log[Len(log)].reads > 0
       THEN /\ rx' = AfterReadExact(sop.length)
            /\ Finish(IF ReadExactOk(sop.length) THEN SessionOk(Take(rx, sop.length))
                      ELSE SessionErr("timed out"))
       ELSE /\ rx' = <<>>
            /\ tx' = tx \o log[Len(log)].sent
            /\ log' = [log EXCEPT ![Len(log)].reads = @ + 1,
                                  ![Len(log)].sent = @ \o @]
            /\ UNCHANGED <<sop, spc, caller, returned>>

\* read_bytes after the request: buffer = vec![0; length]; Ok(buffer) holds
\* what read_exact put there.
read_bytes ==
    /\ spc = "sent" /\ sop.op = "read_bytes"
    /\ rx' = AfterReadExact(sop.length)
    /\ Finish(IF ReadExactOk(sop.length) THEN SessionOk(Take(rx, sop.length))
              ELSE SessionErr("timed out"))

\* read_word after the request: buffer = [0; 8]; the value is made of the
\* first four bytes read.
read_word ==
    /\ spc = "sent" /\ sop.op = "read_word"
    /\ rx' = AfterReadExact(8)
    /\ Finish(IF ReadExactOk(8) THEN SessionOk(FromLeBytes(Take(rx, 4)))
              ELSE SessionErr("timed out"))

\* read_words after the request: buffer = vec![0; length * 4]; a buffer
\* under 4 bytes is an error, otherwise the value is made of the first four
\* bytes read.
read_words ==
    /\ spc = "sent" /\ sop.op = "read_words"
    /\ LET n == sop.length * WORD_SIZE
       IN  /\ rx' = AfterReadExact(n)
           /\ Finish(IF ~ReadExactOk(n) THEN SessionErr("timed out")
                     ELSE IF n < 4 THEN SessionErr("Buffer too short to read a word")
                     ELSE SessionOk(FromLeBytes(Take(rx, 4))))

\* Mutant of set_breakpoint: the call does nothing and returns Ok(()).
set_breakpoint_noop ==
    /\ spc = "idle" /\ caller.op = "none"
    /\ Len(log) < MaxOps
    /\ \E a \in {W32(0, 256)} :
          /\ sop' = [op |-> "set_breakpoint", address |-> a]
          /\ log' = Append(log, [call |-> [op |-> "set_breakpoint", address |-> a],
                                 sent |-> <<>>, reads |-> 0, reply |-> <<>>,
                                 result |-> SessionOk(<<>>)])
    /\ UNCHANGED <<spc, tx, rx, caller, returned>>

\* set_breakpoint(address): five constants, then todo!(), which aborts the
\* program; nothing before it touches the port.
BreakpointAddrSet == {W32(0, 256), W32(8192, 256)}
set_breakpoint ==
    /\ spc = "idle" /\ caller.op = "none"
    /\ Len(log) < MaxOps
    /\ \E a \in BreakpointAddrSet :
          /\ sop' = [op |-> "set_breakpoint", address |-> a]
          /\ log' = Append(log, [call |-> [op |-> "set_breakpoint", address |-> a],
                                 sent |-> <<>>, reads |-> 0, reply |-> <<>>,
                                 result |-> SessionPanic])
    /\ spc' = "panicked"
    /\ UNCHANGED <<tx, rx, caller, returned>>

NoCaller == [op |-> "none"]

\* The composite operation returns res; its steps are log[first .. last].
CompositeDone(res) ==
    /\ returned' = Append(returned, [call |-> caller.call, first |-> caller.first,
                                     last |-> Len(log), result |-> res])
    /\ caller' = NoCaller
    /\ UNCHANGED <<sop, spc, tx, rx, log>>

\* First statement of read_register and of read_pc_register:
\* self.write_word(DCRSR_ADDR, index)
RegisterSelect ==
    /\ caller.op = "none"
    /\ Len(log) < MaxOps
    /\ \E c \in CompositeSet :
          /\ caller' = [op |-> c.op, call |-> c, step |-> "write", first |-> Len(log) + 1]
          /\ Request([op |-> "write_word", address |-> DCRSR_ADDR, value |-> SelectValue(c)])
    /\ UNCHANGED returned

\* Mutant of RegisterFetch: the outcome of the write step is not looked at.
RegisterFetchAnyway ==
    /\ caller.op # "none" /\ caller.step = "write"
    /\ spc = "idle"
    /\ caller' = [caller EXCEPT !.step = "read"]
    /\ Request([op |-> "read_words", address |-> DataAddress(caller.call), length |-> 1])
    /\ UNCHANGED returned

\* The `?` after write_word, the 10 ms sleep, then
\* self.read_words(DCRDR_ADDR, 1): a failed write step is returned at once,
\* otherwise the read request is sent.
RegisterFetch ==
    /\ caller.op # "none" /\ caller.step = "write"
    /\ spc = "idle"
    /\ IF log[Len(log)].result.kind = "Err"
       THEN CompositeDone(log[Len(log)].result)
       ELSE /\ caller' = [caller EXCEPT !.step = "read"]
            /\ Request([op |-> "read_words", address |-> DataAddress(caller.call),
                        length |-> 1])
            /\ UNCHANGED returned

\* The `?` after read_words and Ok(value): the outcome of the read step is
\* the outcome of the operation.
RegisterReturn ==
    /\ caller.op # "none" /\ caller.step = "read"
    /\ spc = "idle"
    /\ CompositeDone(log[Len(log)].result)

SessionNext ==
    \/ SendRequest /\ UNCHANGED <<verifyVars, frameVars, crcVars, decodeVars, loadVars, softVars, frontVars>>
    \/ DeviceReply /\ UNCHANGED <<verifyVars, frameVars, crcVars, decodeVars, loadVars, softVars, frontVars>>
    \/ halt /\ UNCHANGED <<verifyVars, frameVars, crcVars, decodeVars, loadVars, softVars, frontVars>>
    \/ resume /\ UNCHANGED <<verifyVars, frameVars, crcVars, decodeVars, loadVars, softVars, frontVars>>
    \/ write_word /\ UNCHANGED <<verifyVars, frameVars, crcVars, decodeVars, loadVars, softVars, frontVars>>
    \/ read_bytes /\ UNCHANGED <<verifyVars, frameVars, crcVars, decodeVars, loadVars, softVars, frontVars>>
    \/ read_word /\ UNCHANGED <<verifyVars, frameVars, crcVars, decodeVars, loadVars, softVars, frontVars>>
    \/ read_words /\ UNCHANGED <<verifyVars, frameVars, crcVars, decodeVars, loadVars, softVars, frontVars>>
    \/ set_breakpoint /\ UNCHANGED <<verifyVars, frameVars, crcVars, decodeVars, loadVars, softVars, frontVars>>
    \/ RegisterSelect /\ UNCHANGED <<verifyVars, frameVars, crcVars, decodeVars, loadVars, softVars, frontVars>>
    \/ RegisterFetch /\ UNCHANGED <<verifyVars, frameVars, crcVars, decodeVars, loadVars, softVars, frontVars>>
    \/ RegisterReturn /\ UNCHANGED <<verifyVars, frameVars, crcVars, decodeVars, loadVars, softVars, frontVars>>

SessionSpecInit == SessionInit /\ VerifyIdle /\ FrameIdle /\ CrcIdle /\ DecodeIdle /\ LoadIdle /\ SoftIdle /\ FrontIdle

SessionSpec == SessionSpecInit /\ [][SessionNext]_vars

----------------------------------------------------------------------------
(* ElfFlashVerifier::from_elf_file and get_memory_map *)

SHF_ALLOC == 2
SHT_NOBITS == 8
FLASH_END == 131072
INFO_FLASH_START == 1103101952
INFO_FLASH_END == 1103102976

\* Section header fields as goblin gives them.  sh_addr is 64 bits wide and
\* is kept as upper * 2^32 + low; `sh_addr as u32` keeps low.
AsU32(sh_addr) == sh_addr.low

\* ElfFlashVerifier::is_programmable_section
is_programmable_section(h) ==
    IF (h.sh_flags \div SHF_ALLOC) % 2 = 0 THEN FALSE
    ELSE IF h.sh_type = SHT_NOBITS THEN FALSE
    ELSE LET addr == AsU32(h.sh_addr)
         IN  IF addr >= 0 /\ addr < FLASH_END THEN TRUE
             ELSE IF addr >= INFO_FLASH_START /\ addr < INFO_FLASH_END THEN TRUE
             ELSE FALSE

\* Mutant of extract_section_data: a section may end one byte past the
\* buffer; the bytes that exist are returned.
extract_section_data_lax(buffer, h) ==
    IF h.sh_offset + h.sh_size > Len(buffer) + 1
    THEN [ok |-> FALSE, data |-> <<>>]
    ELSE [ok |-> TRUE,
          data |-> SubSeq(buffer, h.sh_offset + 1, Min(h.sh_offset + h.sh_size, Len(buffer)))]

\* ElfFlashVerifier::extract_section_data: Err("Section data extends beyond
\* file") or Ok(buffer[start..start + size].to_vec())
extract_section_data(buffer, h) ==
    IF h.sh_offset + h.sh_size > Len(buffer)
    THEN [ok |-> FALSE, data |-> <<>>]
    ELSE [ok |-> TRUE, data |-> SubSeq(buffer, h.sh_offset + 1, h.sh_offset + h.sh_size)]

\* FlashSection { address: sh_addr as u32, size: sh_size as u32, data }
FlashSection(h, data) == [address |-> AsU32(h.sh_addr), size |-> h.sh_size, data |-> data]

\* Mutant of InsertByAddress: s goes in front of the elements with its own
\* key.
RECURSIVE InsertBeforeEqual(_, _)
InsertBeforeEqual(sorted, s) ==
    IF sorted = <<>> THEN <<s>>
    ELSE IF sorted[Len(sorted)].address < s.address THEN Append(sorted, s)
    ELSE Append(InsertBeforeEqual(SubSeq(sorted, 1, Len(sorted) - 1), s), sorted[Len(sorted)])

\* s goes behind every element whose key is not greater than its own.
RECURSIVE InsertByAddress(_, _)
InsertByAddress(sorted, s) ==
    IF sorted = <<>> THEN <<s>>
    ELSE IF sorted[Len(sorted)].address <= s.address THEN Append(sorted, s)
    ELSE Append(InsertByAddress(SubSeq(sorted, 1, Len(sorted) - 1), s), sorted[Len(sorted)])

\* sections.sort_by_key(|s| s.address): a stable sort
RECURSIVE SortByAddress(_)
SortByAddress(list) ==
    IF list = <<>> THEN <<>>
    ELSE InsertByAddress(SortByAddress(SubSeq(list, 1, Len(list) - 1)), list[Len(list)])

\* A u32 as two 16-bit halves, for values that may pass 2^31
ToW32(n) == W32(n \div 65536, n % 65536)

\* s.address + s.size - 1 in u32.  At address + size = 0 the subtraction
\* underflows: a debug build aborts, a release build wraps to 0xffffffff.
\* (The addresses and sizes drawn here keep address + size below 2^32.)
MapEnd(s, profile) ==
    IF s.address + s.size = 0
    THEN [panic |-> profile = "debug", value |-> W32(65535, 65535)]
    ELSE [panic |-> FALSE, value |-> ToW32(s.address + s.size - 1)]

\* ElfFlashVerifier::get_memory_map
get_memory_map(list, profile) ==
    IF \E k \in 1..Len(list) : MapEnd(list[k], profile).panic
    THEN [kind |-> "panic"]
    ELSE [kind |-> "Ok",
          pairs |-> [k \in 1..Len(list) |->
                        <<ToW32(list[k].address), MapEnd(list[k], profile).value>>]]

\* section.address.to_le_bytes()
AddressLeBytes(address) ==
    <<address % 256, (address \div 256) % 256, (address \div 65536) % 256,
      address \div 16777216>>

\* The CRC_32_IEEE digest is table driven: the table entry of a byte is the
\* reflected CRC-32 register (polynomial 0xedb88320) after eight steps from
\* that byte.
Crc32Table == [b \in 0..255 |-> Crc32Steps(W32(0, b), U8_BITS)]
Shr8(a) == W32(a.hi \div 256, (a.hi % 256) * 256 + a.lo \div 256)
DigestByte(digest, byte) == Xor32(Shr8(digest), Crc32Table[XorByte[digest.lo % 256][byte]])

\* digest.update(bytes)
RECURSIVE DigestUpdate(_, _)
DigestUpdate(digest, bytes) ==
    IF bytes = <<>> THEN digest
    ELSE LET next == DigestByte(digest, Head(bytes))
         IN  IF next.lo >= 0 THEN DigestUpdate(next, Tail(bytes)) ELSE next

\* for section in &self.sections: the address bytes, then the data
RECURSIVE DigestSections(_, _)
DigestSections(digest, list) ==
    IF list = <<>> THEN digest
    ELSE LET next == DigestUpdate(DigestUpdate(digest, AddressLeBytes(Head(list).address)),
                                  Head(list).data)
         IN  IF next.lo >= 0 THEN DigestSections(next, Tail(list)) ELSE next

\* digest.finalize() of CRC_32_IEEE: the register is xored with 0xffffffff
DigestFinalize(digest) == Xor32(digest, W32(65535, 65535))

\* ElfFlashVerifier::calculate_checksum: crc.digest() starts the register
\* at 0xffffffff
calculate_checksum(list) == DigestFinalize(DigestSections(W32(65535, 65535), list))

\* The image buffer and the section tables read from it
ImageBytes == <<10, 20, 30, 40>>
Header(flags, type, upper, low, offset, size) ==
    [sh_flags |-> flags, sh_type |-> type, sh_addr |-> [upper |-> upper, low |-> low],
     sh_offset |-> offset, sh_size |-> size]
\* Allocatable sections with data at the edges of the two windows, and one
\* whose 64-bit address is 2^32
WindowEdgeHeaders ==
    { Header(2, 1, 0, a, 0, 1) :
        a \in {0, 131071, 131072, 1103101951, 1103101952, 1103102975, 1103102976} }
    \cup { Header(2, 1, 1, 0, 1, 1) }
\* At 0x00010000: not allocatable; no-data type lying outside the buffer
FlagHeaders == { Header(1, 1, 0, 65536, 0, 1), Header(3, 8, 0, 65536, 9, 9) }
\* At 0x41c00200: inside the buffer, one byte past it, empty at its end;
\* at 0: empty
ExtentHeaders ==
    { Header(6, 1, 0, 1103102464, 2, 2), Header(2, 1, 0, 1103102464, 3, 2),
      Header(2, 1, 0, 1103102464, 4, 0), Header(2, 1, 0, 0, 0, 0) }
HeaderPool == WindowEdgeHeaders \cup FlagHeaders \cup ExtentHeaders
MaxHeaders == 3
HeaderTables == UNION { [1..n -> HeaderPool] : n \in 0..MaxHeaders }

\* from_elf_file up to the loop: the file is read into buffer and parsed,
\* sections is empty.
LoadInit ==
    /\ headers \in HeaderTables
    /\ image = ImageBytes
    /\ loaded = <<>>
    /\ li = 1
    /\ lpc = "loop"
    /\ verifier = [kind |-> "none"]
    /\ memmap = [kind |-> "none"]
    /\ checksum = [kind |-> "none"]

\* One round of `for section_header in &elf.section_headers`: a section
\* that is not programmable is skipped; a programmable one is extracted and
\* pushed, or the `?` returns the extraction error from from_elf_file.
LoadSection ==
    /\ lpc = "loop"
    /\ li <= Len(headers)
    /\ LET h == headers[li]
           got == extract_section_data(image, h)
       IN  IF ~is_programmable_section(h)
           THEN /\ li' = li + 1
                /\ UNCHANGED <<loaded, lpc, verifier>>
           ELSE IF ~got.ok
           THEN /\ lpc' = "failed"
                /\ verifier' = [kind |-> "Err", message |-> "Section data extends beyond file"]
                /\ UNCHANGED <<loaded, li>>
           ELSE /\ loaded' = Append(loaded, FlashSection(h, got.data))
                /\ li' = li + 1
                /\ UNCHANGED <<lpc, verifier>>
    /\ UNCHANGED <<headers, image, memmap, checksum>>

\* After the loop: sections.sort_by_key(|s| s.address) and
\* Ok(ElfFlashVerifier { sections, .. })
FinishLoad ==
    /\ lpc = "loop"
    /\ li > Len(headers)
    /\ verifier' = [kind |-> "Ok", sections |-> SortByAddress(loaded)]
    /\ lpc' = "done"
    /\ UNCHANGED <<headers, image, loaded, li, memmap, checksum>>

\* verifier.get_memory_map()
GetMemoryMap ==
    /\ lpc = "done"
    /\ memmap' = get_memory_map(verifier.sections, build)
    /\ lpc' = "mapped"
    /\ UNCHANGED <<headers, image, loaded, li, verifier, checksum>>

\* verifier.calculate_checksum()
CalculateChecksum ==
    /\ lpc \in {"done", "mapped"}
    /\ checksum.kind = "none"
    /\ checksum' = [kind |-> "Ok", value |-> calculate_checksum(verifier.sections)]
    /\ UNCHANGED <<headers, image, loaded, li, lpc, verifier, memmap>>

LoadNext ==
    \/ LoadSection /\ UNCHANGED <<verifyVars, frameVars, crcVars, decodeVars, sessionVars, softVars, frontVars>>
    \/ FinishLoad /\ UNCHANGED <<verifyVars, frameVars, crcVars, decodeVars, sessionVars, softVars, frontVars>>
    \/ GetMemoryMap /\ UNCHANGED <<verifyVars, frameVars, crcVars, decodeVars, sessionVars, softVars, frontVars>>
    \/ CalculateChecksum /\ UNCHANGED <<verifyVars, frameVars, crcVars, decodeVars, sessionVars, softVars, frontVars>>

\* The build profile is drawn; the codec is not used.
LoadSpecInit ==
    /\ LoadInit
    /\ build \in BuildSet /\ command = [kind |-> "none"] /\ frame = <<>> /\ fpc = "idle"
    /\ VerifyIdle /\ CrcIdle /\ DecodeIdle /\ SessionIdle /\ SoftIdle /\ FrontIdle

LoadSpec == LoadSpecInit /\ [][LoadNext]_vars

----------------------------------------------------------------------------
(* Event front end: src/src/socketio.rs *)

\* Bounds: halt/resume events received, and plug/unplug events of the device
MaxEvents == 2
MaxPlugs == 1

EventSet == {"halt", "resume"}
POLLER == 0

\* Arc<Mutex<SerialLoader>>: who holds the guard (POLLER, a task number, or
\* -1 for nobody) and whether a holder has panicked
FreeMutex == [holder |-> -1, poisoned |-> FALSE]

\* SerialLoader::reconnect, as the specification describes reconnection: the
\* transport handle is replaced by a fresh open one.
reconnect(p) == [handle |-> p.handle + 1, open |-> TRUE]

\* SerialLoader::close: the transport handle is closed.
close(p) == [handle |-> p.handle, open |-> FALSE]

\* CommandResponse { success, message, command, args: vec![] }
CommandResponse(success, message, name) ==
    [success |-> success, message |-> message, command |-> name]

\* The message of a handler's success response
DoneMessage(event) == IF event = "halt" THEN "Halted" ELSE "Resumed"

\* on_connect: SerialLoader::new(None, 115200) has opened the port, the
\* handlers are registered and the poller is spawned.
FrontInit ==
    /\ mutex = FreeMutex
    /\ tasks = <<>>
    /\ acks = <<>>
    /\ port = [handle |-> 0, open |-> TRUE]
    /\ wire = <<>>
    /\ owed = <<>>
    /\ poller = [pc |-> "poll", last_status |-> "None", seen |-> FALSE]
    /\ connected = TRUE
    /\ plugs = 0

\* socket.on("halt" | "resume", ..): the event spawns a task that owns the
\* AckSender.
ReceiveEvent ==
    /\ Len(tasks) < MaxEvents
    /\ \E e \in EventSet :
          tasks' = Append(tasks, [event |-> e, pc |-> "spawned", result |-> "none"])
    /\ UNCHANGED <<mutex, acks, port, wire, owed, poller, connected, plugs>>

\* Mutant of HandlerLock: the handler goes on without waiting for the guard.
HandlerLockNoWait(t) ==
    /\ tasks[t].pc = "spawned"
    /\ ~mutex.poisoned
    /\ tasks' = [tasks EXCEPT ![t].pc = "locked"]
    /\ mutex' = [mutex EXCEPT !.holder = t]
    /\ UNCHANGED <<acks, port, wire, owed, poller, connected, plugs>>

\* match loader.lock(): blocks while the guard is held; Ok(guard), or, the
\* mutex being poisoned, Err: the lock-failure response is sent and the
\* task ends.
HandlerLock(t) ==
    /\ tasks[t].pc = "spawned"
    /\ mutex.holder = -1
    /\ IF mutex.poisoned
       THEN /\ tasks' = [tasks EXCEPT ![t].pc = "done", ![t].result = "no_lock"]
            /\ acks' = Append(acks, [task |-> t,
                          response |-> CommandResponse(FALSE,
                              "Error: Failed to acquire loader lock", tasks[t].event)])
            /\ UNCHANGED mutex
       ELSE /\ tasks' = [tasks EXCEPT ![t].pc = "locked"]
            /\ mutex' = [mutex EXCEPT !.holder = t]
            /\ UNCHANGED acks
    /\ UNCHANGED <<port, wire, owed, poller, connected, plugs>>

\* loader.halt() / loader.resume() up to the read: write_all and flush of
\* the request frame.  A failure (always, on a closed port) comes back as
\* Err through `?`: the error response is sent and the guard dropped.
HandlerRequest(t) ==
    /\ tasks[t].pc = "locked"
    /\ \E o \in PortWriteSet(Len(RequestFrame["release", [op |-> tasks[t].event]].data)) :
          /\ o.io = "ok" => port.open
          /\ IF o.io = "ok"
             THEN /\ tasks' = [tasks EXCEPT ![t].pc = "sent"]
                  /\ owed' = Append(owed, tasks[t].event)
                  /\ UNCHANGED <<acks, mutex>>
             ELSE /\ tasks' = [tasks EXCEPT ![t].pc = "done", ![t].result = "Err"]
                  /\ acks' = Append(acks, [task |-> t,
                                response |-> CommandResponse(FALSE, "Error: port write failed",
                                                             tasks[t].event)])
                  /\ mutex' = [mutex EXCEPT !.holder = -1]
                  /\ UNCHANGED owed
    /\ UNCHANGED <<port, wire, poller, connected, plugs>>

\* The device answers a request it has received.
DeviceAnswer ==
    /\ owed # <<>>
    /\ connected
    /\ \E f \in AnswerSet[[op |-> Head(owed)]] : wire' = wire \o f
    /\ owed' = Tail(owed)
    /\ UNCHANGED <<mutex, tasks, acks, port, poller, connected, plugs>>

\* The rest of halt() / resume() and of the handler: self.port.read(..)
\* after the settle delay.  halt ignores the outcome and returns Ok(());
\* resume returns Ok(()) after a timeout, and reaches todo!() when the read
\* returned bytes: the task panics, the AckSender is dropped unused and
\* the guard is dropped by the unwinding, which poisons the mutex.
HandlerFinish(t) ==
    /\ tasks[t].pc = "sent"
    /\ wire' = <<>>
    /\ IF tasks[t].event = "resume" /\ wire # <<>>
       THEN /\ tasks' = [tasks EXCEPT ![t].pc = "panicked", ![t].result = "panic"]
            /\ mutex' = [holder |-> -1, poisoned |-> TRUE]
            /\ UNCHANGED acks
       ELSE /\ tasks' = [tasks EXCEPT ![t].pc = "done", ![t].result = "Ok"]
            /\ acks' = Append(acks, [task |-> t,
                          response |-> CommandResponse(TRUE, DoneMessage(tasks[t].event),
                                                       tasks[t].event)])
            /\ mutex' = [mutex EXCEPT !.holder = -1]
    /\ UNCHANGED <<port, owed, poller, connected, plugs>>

\* The device is plugged in or pulled out.
DevicePlug ==
    /\ plugs < MaxPlugs
    /\ connected' = ~connected
    /\ plugs' = plugs + 1
    /\ UNCHANGED <<mutex, tasks, acks, port, wire, owed, poller>>

Status(c) == IF c THEN "Some(true)" ELSE "Some(false)"

\* check_port_connection, top of the loop: is_device_connected; nothing to
\* do but sleep when the status has not changed.
PollStatus ==
    /\ poller.pc = "poll"
    /\ poller' = IF poller.last_status # Status(connected)
                 THEN [poller EXCEPT !.pc = "lock", !.seen = connected]
                 ELSE poller
    /\ poller' # poller
    /\ UNCHANGED <<mutex, tasks, acks, port, wire, owed, connected, plugs>>

\* match loader.lock() in either branch: Ok(guard), or Err on a poisoned
\* mutex, where the loader is left alone and last_status is updated.
PollLock ==
    /\ poller.pc = "lock"
    /\ mutex.holder = -1
    /\ IF mutex.poisoned
       THEN /\ poller' = [poller EXCEPT !.pc = "poll", !.last_status = Status(poller.seen)]
            /\ UNCHANGED mutex
       ELSE /\ poller' = [poller EXCEPT !.pc = "locked"]
            /\ mutex' = [mutex EXCEPT !.holder = POLLER]
    /\ UNCHANGED <<tasks, acks, port, wire, owed, connected, plugs>>

\* Under the guard: loader_guard.reconnect() when the device was seen
\* connected (it may fail and leave the handle alone), loader_guard.close()
\* when not; the guard is dropped and last_status updated.
PollReplace ==
    /\ poller.pc = "locked"
    /\ \E okay \in BOOLEAN :
          /\ ~poller.seen => okay
          /\ port' = IF ~poller.seen THEN close(port)
                     ELSE IF okay THEN reconnect(port) ELSE port
    /\ mutex' = [mutex EXCEPT !.holder = -1]
    /\ poller' = [poller EXCEPT !.pc = "poll", !.last_status = Status(poller.seen)]
    /\ UNCHANGED <<tasks, acks, wire, owed, connected, plugs>>

FrontNext ==
    \/ ReceiveEvent /\ UNCHANGED <<verifyVars, frameVars, crcVars, decodeVars, sessionVars, loadVars, softVars>>
    \/ (\E t \in 1..Len(tasks) : HandlerLock(t)) /\ UNCHANGED <<verifyVars, frameVars, crcVars, decodeVars, sessionVars, loadVars, softVars>>
    \/ (\E t \in 1..Len(tasks) : HandlerRequest(t)) /\ UNCHANGED <<verifyVars, frameVars, crcVars, decodeVars, sessionVars, loadVars, softVars>>
    \/ (\E t \in 1..Len(tasks) : HandlerFinish(t)) /\ UNCHANGED <<verifyVars, frameVars, crcVars, decodeVars, sessionVars, loadVars, softVars>>
    \/ DeviceAnswer /\ UNCHANGED <<verifyVars, frameVars, crcVars, decodeVars, sessionVars, loadVars, softVars>>
    \/ DevicePlug /\ UNCHANGED <<verifyVars, frameVars, crcVars, decodeVars, sessionVars, loadVars, softVars>>
    \/ PollStatus /\ UNCHANGED <<verifyVars, frameVars, crcVars, decodeVars, sessionVars, loadVars, softVars>>
    \/ PollLock /\ UNCHANGED <<verifyVars, frameVars, crcVars, decodeVars, sessionVars, loadVars, softVars>>
    \/ PollReplace /\ UNCHANGED <<verifyVars, frameVars, crcVars, decodeVars, sessionVars, loadVars, softVars>>

FrontSpecInit ==
    FrontInit /\ VerifyIdle /\ FrameIdle /\ CrcIdle /\ DecodeIdle /\ SessionIdle /\ LoadIdle
    /\ SoftIdle

FrontSpec == FrontSpecInit /\ [][FrontNext]_vars

----------------------------------------------------------------------------
(* Properties of the frame codec *)

\* The value of the 2-byte big-endian length field of a frame
LengthField(f) == f[3] * 256 + f[4]

\* Number of bytes of a frame from the opcode (offset 4) through the checksum
\* byte (third from the end), both included
OpcodeThroughChecksum(f) == Cardinality({k \in 1..Len(f) : k >= 5 /\ k <= Len(f) - 2})

\* C8: in every frame write_frame produces, the big-endian value of bytes
\* 2..3 is the frame length minus 6, the number of bytes from the opcode
\* through the checksum.
C8_LengthField ==
    fpc = "written" =>
        /\ LengthField(frame) = Len(frame) - 6
        /\ LengthField(frame) = OpcodeThroughChecksum(frame)

\* C8 witness: a Write frame with the largest accepted payload, 4096 bytes.
C8_Witness ==
    /\ fpc = "written"
    /\ command.kind = "Write"
    /\ Len(command.write_data) = 4096
    /\ LengthField(frame) = 4102

\* The four bytes of f from 1-based position p are the address, most
\* significant byte first.
AddressAt(f, p, a) ==
    /\ \A k \in p..(p + 3) : f[k] \in 0..255
    /\ f[p] * 256 + f[p + 1] = a.hi
    /\ f[p + 2] * 256 + f[p + 3] = a.lo

\* C9: every frame is FF F9, 2 length bytes, the opcode of its command, the
\* address most significant byte first where the command has one, then the
\* 16-bit length most significant first (ReadBytes, ReadWords) or the raw
\* data bytes in order (Write), one checksum byte, F5 E7.
C9_FrameLayout ==
    fpc = "written" =>
        LET n == Len(frame)
            fields ==
                CASE command.kind \in {"Halt", "Resume"} -> 0
                  [] command.kind = "ReadWord" -> 4
                  [] command.kind \in {"ReadBytes", "ReadWords"} -> 6
                  [] command.kind = "Write" -> 4 + Len(command.write_data)
        IN  /\ n = 2 + 2 + 1 + fields + 1 + 2
            /\ frame[1] = 255 /\ frame[2] = 249
            /\ frame[5] = OpcodeOf(command.kind)
            /\ command.kind \in {"ReadWord", "ReadBytes", "ReadWords"} =>
                  AddressAt(frame, 6, command.start_address)
            /\ command.kind = "Write" =>
                  /\ AddressAt(frame, 6, command.write_address)
                  /\ \A k \in 1..Len(command.write_data) :
                        frame[9 + k] = command.write_data[k]
            /\ command.kind \in {"ReadBytes", "ReadWords"} =>
                  /\ frame[10] \in 0..255 /\ frame[11] \in 0..255
                  /\ frame[10] * 256 + frame[11] = command.length % 65536
            /\ frame[n - 2] \in 0..255
            /\ frame[n - 1] = 245 /\ frame[n] = 231

\* C9 witness: the frame of a Write of two data bytes at an
\* address whose four bytes differ.
C9_Witness ==
    /\ fpc = "written"
    /\ command.kind = "Write"
    /\ command.write_address = W32(258, 772)
    /\ command.write_data = <<90, 255>>
    /\ SubSeq(frame, 5, 11) = <<196, 1, 2, 3, 4, 90, 255>>

\* The size a ReadBytes or Write command asks the frame to carry
RequestedSize == IF command.kind = "ReadBytes" THEN command.length
                 ELSE Len(command.write_data)

\* C12: write_frame for ReadBytes with length above 4096 and for Write with
\* more than 4096 data bytes aborts and leaves no frame, so nothing reaches
\* the port for that call; for every length or payload size from 0 to 4096
\* it returns a frame, which is then written to the port.
C12_PayloadGuard ==
    /\ [](command.kind \in {"ReadBytes", "Write"} =>
            IF RequestedSize > 4096
            THEN fpc \in {"new", "panicked"} /\ frame = <<>> /\ tx = <<>>
            ELSE /\ fpc \in {"new", "written", "sent", "failed"}
                 /\ (fpc # "new" => frame # <<>>)
                 /\ (fpc = "sent" => tx = frame)
                 /\ (fpc = "failed" => IsPrefix(tx, frame)))
    /\ [][(command.kind \in {"ReadBytes", "Write"} /\ fpc = "new") =>
            fpc' = IF RequestedSize > 4096 THEN "panicked" ELSE "written"]_vars

\* C12 witness: ReadBytes of 4097 bytes has aborted with nothing written.
C12_Witness ==
    /\ command.kind = "ReadBytes"
    /\ command.length = 4097
    /\ fpc = "panicked"
    /\ frame = <<>>
    /\ tx = <<>>

\* C13 as stated: write_frame for ReadWords aborts exactly when count x 4,
\* evaluated in u32, exceeds 4096; every other count gets a frame.
C13_ReadWordsLimit ==
    (command.kind = "ReadWords" /\ fpc # "new") =>
        ((fpc = "panicked") <=> ((command.length * WORD_SIZE) > MAX_DATA_LENGTH))

\* The two buffers agree on the 0-based offsets lo .. hi-1.
AgreeOn(lo, hi) ==
    \A i \in lo..(hi - 1) : (i + 1 \in DOMAIN bufA) => bufA[i + 1] = bufB[i + 1]

CrcDone == cpc = "done" /\ ~crcA.panic /\ ~crcB.panic

\* C10 as stated: two buffers of equal length that hold a command span (8
\* bytes or more, the opcode at offset 4) and agree from the opcode up to
\* the byte before the checksum have the same checksum, whatever their
\* header, length field, checksum and footer are.
C10_ExcludesLengthField ==
    (CrcDone /\ Len(bufA) >= 8 /\ AgreeOn(4, Len(bufA) - 3)) => crcA.crc = crcB.crc

\* The 0-based offset of the one byte in which bufA and bufB differ
FlippedOffset == (CHOOSE p \in 1..Len(bufA) : bufA[p] # bufB[p]) - 1

\* The two buffers differ in exactly one bit of one byte.
OneBitApart ==
    /\ Len(bufA) = Len(bufB)
    /\ Cardinality({p \in 1..Len(bufA) : bufA[p] # bufB[p]}) = 1
    /\ \E k \in 0..7 : bufB[FlippedOffset + 1] = FlipBit(bufA[FlippedOffset + 1], k)

\* C11: for every buffer, inverting one bit of a byte inside the span
\* compute_crc covers (offsets 2 .. len-4) changes the value compute_crc
\* returns, and inverting one bit of a byte outside the span leaves it
\* unchanged.
C11_SingleBitFlip ==
    (CrcDone /\ OneBitApart) =>
        IF FlippedOffset >= 2 /\ FlippedOffset < Len(bufA) - 3
        THEN crcA.crc # crcB.crc
        ELSE crcA.crc = crcB.crc

\* C11 witness: the lowest bit of the last byte of the span of a 7-byte
\* buffer is inverted and the checksum changes.
C11_Witness ==
    /\ CrcDone /\ OneBitApart
    /\ Len(bufA) = 7
    /\ FlippedOffset = 3
    /\ bufA[4] = 165 /\ bufB[4] = 164
    /\ crcA.crc # crcB.crc

----------------------------------------------------------------------------
(* Properties of read_frame *)

ReadFamily == {"ReadBytes", "ReadWord", "ReadWords"}

\* The acknowledgement and error codes of the reply table
AckOf(kind) == IF kind \in ReadFamily THEN 210 ELSE 209
ErrorOf(kind) == IF kind \in ReadFamily THEN 227 ELSE 225

\* The response code of the buffer, where it has one
ReplyCode == reply[6]

\* The buffer is long enough for a whole reply frame: header, length, offset
\* 4, response code, the payload of an acknowledged read, checksum, footer.
WholeReply ==
    /\ Len(reply) >= 9
    /\ ReplyCode = AckOf(command.kind) => Len(reply) >= 9 + ReplyPayloadLen(command)

\* The checksum byte of the buffer is the one compute_crc gives for it.
ChecksumMatches ==
    /\ Len(reply) >= 3
    /\ reply[Len(reply) - 2] = compute_crc(reply, Len(reply)).crc

DeviceRejected == {"Halt command failed", "Read command failed", "Write command failed"}
Unrecognized == {"Unknown response to Halt command", "Unknown response to Read command",
                 "Unknown response to Write command"}

\* C14: read_frame classifies a whole reply by the byte at offset 5 alone:
\* the acknowledgement code of the command kind gives Ok, its error code
\* gives a device-rejected Err, every other byte gives an unrecognized-
\* response Err, and the two kinds of Err never coincide.
C14_Classification ==
    (dpc = "done" /\ WholeReply) =>
        /\ ReplyCode = AckOf(command.kind) => decoded.kind = "Ok"
        /\ ReplyCode = ErrorOf(command.kind) =>
              decoded.kind = "Err" /\ decoded.message \in DeviceRejected
        /\ ReplyCode \notin {AckOf(command.kind), ErrorOf(command.kind)} =>
              decoded.kind = "Err" /\ decoded.message \in Unrecognized
        /\ DeviceRejected \cap Unrecognized = {}

\* C14 witness: a reply to ReadWord that carries D1, the acknowledgement of
\* the other family, at offset 5 and D2 at offset 4 is an unrecognized
\* response.
C14_Witness ==
    /\ dpc = "done" /\ WholeReply
    /\ command.kind = "ReadWord"
    /\ reply[5] = 210
    /\ ReplyCode = 209
    /\ decoded = DecodeErr("Unknown response to Read command")

\* The buffer is a reply frame that carries n payload bytes.
CarriesPayload(n) == Len(reply) = 9 + n

\* C15: for ReadBytes{length = n} and ReadWord, an acknowledged reply frame
\* with a payload of n (4) bytes decodes to exactly the payload, the bytes at
\* offsets 6 .. 5+n; for Halt, Resume and Write an acknowledged reply
\* decodes to the single acknowledgement byte.
C15_AckPayload ==
    (dpc = "done" /\ Len(reply) >= 9 /\ ReplyCode = AckOf(command.kind)) =>
        /\ (command.kind \in {"ReadBytes", "ReadWord"}
              /\ CarriesPayload(ReplyPayloadLen(command))) =>
              decoded = DecodeOk([k \in 1..ReplyPayloadLen(command) |-> reply[6 + k]])
        /\ command.kind \in {"Halt", "Resume", "Write"} => decoded = DecodeOk(<<209>>)

\* C15 witness: ReadBytes{length = 3} gets the three payload bytes back.
C15_Witness ==
    /\ dpc = "done"
    /\ command.kind = "ReadBytes" /\ command.length = 3
    /\ reply = ReplyFrame(198, 210, <<17, 210, 17>>, TRUE)
    /\ decoded = DecodeOk(<<17, 210, 17>>)

\* C16 as stated: for ReadWords with count n an acknowledged reply frame
\* with n x 4 payload bytes decodes to those n x 4 bytes.
C16_WordsPayload ==
    (dpc = "done" /\ command.kind = "ReadWords" /\ Len(reply) >= 9
        /\ ReplyCode = 210 /\ CarriesPayload(command.length * 4)) =>
        decoded = DecodeOk([k \in 1..(command.length * 4) |-> reply[6 + k]])

\* C17 as stated: every reply frame whose checksum byte differs from the
\* computed checksum decodes to a failure, whatever its response code is.
C17_ChecksumMismatchFails ==
    (dpc = "done" /\ WholeReply /\ ~ChecksumMatches) => decoded.kind = "Err"

\* The buffer ends before the response code, or before the end of the
\* payload an acknowledged read asks for.
TooShort ==
    \/ Len(reply) < 6
    \/ ReplyCode = AckOf(command.kind) /\ Len(reply) < 6 + ReplyPayloadLen(command)

\* C18 as stated: a buffer too short to hold the response code or the
\* requested payload, buffers under 3 bytes included, decodes to an error
\* result and the program does not abort.
C18_TruncatedIsError ==
    (dpc = "done" /\ TooShort) => decoded.kind = "Err"

----------------------------------------------------------------------------
(* Properties of the session operations *)

\* The operation that returned last, with the reply the device sent for it
LastOp == log[Len(log)]

ReadOps == {"read_bytes", "read_word", "read_words"}

\* The payload of a reply frame: the bytes after the response code up to
\* the checksum
PayloadOf(f) == SubSeq(f, 7, Len(f) - 3)

\* The value a read operation should hand back for a payload: the bytes for
\* read_bytes, the first word of the payload for read_word and read_words
ValueOf(call, payload) ==
    IF call.op = "read_bytes" THEN payload
    ELSE IF Len(payload) >= 4 THEN FromLeBytes(payload)
    ELSE <<>>

\* C19 as stated: a read operation the device answers with E3 or with an
\* unrecognized code returns a failure, and one the device acknowledges
\* returns the payload that follows the acknowledgement byte, not bytes of
\* the frame envelope.
C19_ReadRoundTrip ==
    (spc = "idle" /\ log # <<>> /\ LastOp.call.op \in ReadOps /\ LastOp.reply # <<>>) =>
        IF LastOp.reply[6] = 210
        THEN (LastOp.call.op = "read_bytes" \/ Len(PayloadOf(LastOp.reply)) >= 4) =>
                LastOp.result = SessionOk(ValueOf(LastOp.call, PayloadOf(LastOp.reply)))
        ELSE LastOp.result.kind = "Err"

\* Every request made so far has been answered by the device.
AllAnswered == \A k \in 1..Len(log) : log[k].reply # <<>>

\* C20 as stated: when the device answers each request with one whole reply
\* frame, no byte of a reply is left in the channel once the operation has
\* returned.
C20_NothingLeftUnread ==
    (spc = "idle" /\ AllAnswered) => rx = <<>>

\* The bytes the operations of the log have written, in log order
RECURSIVE ConcatSent(_)
ConcatSent(k) == IF k = 0 THEN <<>> ELSE ConcatSent(k - 1) \o log[k].sent

\* The operation has returned to its caller (it is neither waiting for its
\* read nor aborted).
HasReturned(e) == e.result.kind \in {"Ok", "Err"}

\* The operation came back with the failure of write_all or flush.
PortFailed(e) == e.result = SessionErr("port write failed")

\* Bytes the exact-length read of a read operation asks for
ExactLength(call) ==
    CASE call.op = "read_bytes" -> call.length
      [] call.op = "read_word" -> 8
      [] call.op = "read_words" -> call.length * 4

\* A frame with the layout of write_frame: header, length field, checksum
\* position and footer
IsOneFrame(f) ==
    /\ Len(f) >= 8
    /\ f[1] = 255 /\ f[2] = 249
    /\ f[3] * 256 + f[4] = Len(f) - 6
    /\ f[Len(f) - 1] = 245 /\ f[Len(f)] = 231

\* C21: read_bytes, read_word and read_words write exactly one request
\* frame per call and make one exact-length read; when fewer bytes than the
\* read asks for have arrived, the call returns a failure, and no step of
\* the call writes a second request or reads a second time; a call whose
\* write_all or flush failed returns without reading.
C21_OneRequestOneRead ==
    /\ [](/\ tx = ConcatSent(Len(log))
          /\ \A k \in 1..Len(log) :
                log[k].call.op \in ReadOps =>
                    /\ log[k].reads <= 1
                    /\ PortFailed(log[k]) => log[k].reads = 0
                    /\ (HasReturned(log[k]) /\ ~PortFailed(log[k])) =>
                          /\ log[k].reads = 1
                          /\ IsOneFrame(log[k].sent)
                          /\ log[k].sent[5] = OpcodeOf(CommandOf(log[k].call).kind))
    /\ [][(spc = "sent" /\ sop.op \in ReadOps) =>
            /\ tx' = tx
            /\ log'[Len(log)].sent = log[Len(log)].sent
            /\ log'[Len(log)].reads # log[Len(log)].reads =>
                  /\ spc' = "idle"
                  /\ Len(rx) < ExactLength(sop) =>
                        log'[Len(log)].result = SessionErr("timed out")]_vars

\* C21 witness: read_bytes of 4 bytes whose request the device never
\* answered has returned a failure after one request and one read.
C21_Witness ==
    /\ spc = "idle"
    /\ Len(log) = 1
    /\ log[1].call.op = "read_bytes" /\ log[1].call.length = 4
    /\ log[1].reply = <<>>
    /\ log[1].reads = 1
    /\ log[1].result = SessionErr("timed out")
    /\ tx = log[1].sent
    /\ IsOneFrame(tx)

\* C22 as stated: halt and resume whose write and flush succeeded return
\* success, whether the one read yields bytes of a reply or times out.
C22_FireAndForget ==
    \A k \in 1..Len(log) :
        (log[k].call.op \in {"halt", "resume"} /\ log[k].result.kind # "pending"
            /\ ~PortFailed(log[k])) =>
            log[k].result.kind = "Ok"

\* C23: write_word(address, value) sends one Write frame, opcode C4, the 4
\* address bytes, then the 4 bytes of value most significant first, and
\* returns success whether a reply arrived within the read or not.
C23_WriteWord ==
    \A k \in 1..Len(log) :
        (log[k].call.op = "write_word" /\ log[k].result.kind # "pending"
            /\ ~PortFailed(log[k])) =>
            /\ IsOneFrame(log[k].sent)
            /\ Len(log[k].sent) = 16
            /\ log[k].sent[5] = 196
            /\ AddressAt(log[k].sent, 6, log[k].call.address)
            /\ AddressAt(log[k].sent, 10, log[k].call.value)
            /\ log[k].reads = 1
            /\ log[k].result.kind = "Ok"

\* C23 witness: write_word(0x20000100, 0x12345678) has returned success
\* without a reply from the device.
C23_Witness ==
    /\ spc = "idle"
    /\ Len(log) = 1
    /\ log[1].call.op = "write_word"
    /\ log[1].reply = <<>>
    /\ Len(log[1].sent) = 16
    /\ SubSeq(log[1].sent, 5, 13) = <<196, 32, 0, 1, 0, 18, 52, 86, 120>>
    /\ log[1].result.kind = "Ok"

\* C24: read_register(index) first writes index to 0xE000EDF4 and only
\* then reads 0xE000EDF8; when the write step fails no read request is sent
\* and the failure is returned; otherwise the operation returns what the
\* read step returned.  A step whose write_all failed has left the start of
\* its frame on the port, and the bytes that are there are those of the
\* step's frame.
C24_ReadRegister ==
    /\ tx = ConcatSent(Len(log))
    /\ \A j \in 1..Len(returned) :
          returned[j].call.op = "read_register" =>
              LET r == returned[j]
                  w == log[r.first]
              IN  /\ w.call.op = "write_word"
                  /\ Len(w.sent) >= 5 => w.sent[5] = 196
                  /\ Len(w.sent) >= 9 => AddressAt(w.sent, 6, W32(57344, 60916))
                  /\ Len(w.sent) >= 13 => AddressAt(w.sent, 10, W32(0, r.call.reg_index))
                  /\ ~PortFailed(w) => Len(w.sent) = 16
                  /\ IF w.result.kind = "Err"
                     THEN r.last = r.first /\ r.result = w.result
                     ELSE /\ r.last = r.first + 1
                          /\ log[r.last].call.op = "read_words"
                          /\ Len(log[r.last].sent) >= 5 => log[r.last].sent[5] = 199
                          /\ Len(log[r.last].sent) >= 9 =>
                                AddressAt(log[r.last].sent, 6, W32(57344, 60920))
                          /\ ~PortFailed(log[r.last]) => Len(log[r.last].sent) = 14
                          /\ r.result = log[r.last].result

\* C24 witness: read_register(15) has returned the word the device sent
\* after both of its steps went out.
C24_Witness ==
    /\ Len(returned) = 1
    /\ returned[1].call = [op |-> "read_register", reg_index |-> 15]
    /\ returned[1].first = 1 /\ returned[1].last = 2
    /\ log[1].sent # <<>> /\ log[2].sent # <<>>
    /\ log[2].reply # <<>>
    /\ returned[1].result.kind = "Ok"

\* The frames read_register(15) puts on the port
SelectFrame15 ==
    write_frame([kind |-> "Write", write_address |-> W32(57344, 60916),
                 write_data |-> <<0, 0, 0, 15>>], "release").data
ReadDataFrame ==
    write_frame([kind |-> "ReadWords", start_address |-> W32(57344, 60920),
                 length |-> 1], "release").data

\* C25 as stated: read_pc_register sends the frames of read_register(15):
\* the write of 15 to 0xE000EDF4, then the read of 0xE000EDF8 (of a step
\* whose write_all failed, the start of its frame).
C25_PcIsRegister15 ==
    \A j \in 1..Len(returned) :
        returned[j].call.op = "read_pc_register" =>
            LET r == returned[j]
            IN  /\ IsPrefix(log[r.first].sent, SelectFrame15)
                /\ r.last > r.first => IsPrefix(log[r.last].sent, ReadDataFrame)

\* C26: set_breakpoint never returns success and never writes to the port,
\* whatever the address.
C26_BreakpointUnavailable ==
    /\ [](\A k \in 1..Len(log) :
            log[k].call.op = "set_breakpoint" =>
                /\ log[k].result.kind # "Ok"
                /\ log[k].sent = <<>>
                /\ tx = ConcatSent(k - 1))
    /\ [][(Len(log') > Len(log) /\ log'[Len(log')].call.op = "set_breakpoint") =>
            tx' = tx /\ spc' # "idle"]_vars

\* C26 witness: set_breakpoint was called after a halt; the program has
\* aborted and the port holds the Halt frame only.
C26_Witness ==
    /\ spc = "panicked"
    /\ Len(log) = 2
    /\ log[1].call.op = "halt" /\ log[1].sent # <<>>
    /\ log[2].call.op = "set_breakpoint"
    /\ log[2].result = SessionPanic
    /\ tx = log[1].sent

----------------------------------------------------------------------------
(* Properties of from_elf_file and get_memory_map *)

\* The conditions of a section header read off the header itself: the
\* allocatable flag (bit 1 of sh_flags), the no-data type, and the 64-bit
\* load address against the two windows
Allocatable(h) == h.sh_flags \in {2, 3, 6, 7}
NoData(h) == h.sh_type = 8
InWindows(h) ==
    /\ h.sh_addr.upper = 0
    /\ \/ 0 <= h.sh_addr.low /\ h.sh_addr.low < 131072
       \/ 1103101952 <= h.sh_addr.low /\ h.sh_addr.low < 1103102976
Eligible(h) == Allocatable(h) /\ ~NoData(h) /\ InWindows(h)

\* The positions k <= n of the section table whose header satisfies test
RECURSIVE PositionsWhere(_, _)
PositionsWhere(test(_), n) ==
    IF n = 0 THEN <<>>
    ELSE IF test(headers[n]) THEN Append(PositionsWhere(test, n - 1), n)
    ELSE PositionsWhere(test, n - 1)

Loaded == lpc \in {"done", "mapped"}

\* C27: a section is in the section list if and only if it is flagged
\* allocatable, is not of the no-data type and has its load address in
\* [0x00000000, 0x00020000) or [0x41C00000, 0x41C00400): while the load has
\* not failed, the sections collected so far are those of the eligible
\* headers passed so far, in table order, and the returned list has as many.
C27_SelectedIffEligible ==
    /\ lpc \in {"loop", "done", "mapped"} =>
          LET at == PositionsWhere(Eligible, li - 1)
          IN  /\ Len(loaded) = Len(at)
              /\ \A k \in 1..Len(at) : loaded[k].address = headers[at[k]].sh_addr.low
    /\ Loaded => Len(verifier.sections) = Len(loaded)

\* The file extent of a header lies inside the image buffer
Fits(h) == h.sh_offset + h.sh_size <= Len(image)

\* C28: the load fails as a whole, with no section list, when a selected
\* section has file offset + size greater than the buffer length;
\* otherwise every selected section's data is the size bytes of the buffer
\* from its file offset on, and its length is the section size.
C28_ExtentChecked ==
    /\ lpc = "failed" =>
          /\ verifier.kind = "Err"
          /\ is_programmable_section(headers[li]) /\ ~Fits(headers[li])
    /\ (lpc = "loop" /\ li > Len(headers)) \/ Loaded =>
          \A k \in 1..Len(headers) : is_programmable_section(headers[k]) => Fits(headers[k])
    /\ Loaded =>
          /\ verifier.kind = "Ok"
          /\ {verifier.sections[k] : k \in 1..Len(verifier.sections)}
                = {loaded[k] : k \in 1..Len(loaded)}
    /\ lpc # "failed" =>
          LET at == PositionsWhere(is_programmable_section, li - 1)
          IN  /\ Len(loaded) = Len(at)
              /\ \A k \in 1..Len(at) :
                    LET h == headers[at[k]]
                    IN  /\ loaded[k].data = [j \in 1..h.sh_size |-> image[h.sh_offset + j]]
                        /\ loaded[k].size = h.sh_size
                        /\ Len(loaded[k].data) = loaded[k].size

\* A load that failed at its second header after a section with the bytes
\* at offsets 2 and 3 had been collected
C28_Witness ==
    /\ lpc = "failed"
    /\ li = 2
    /\ Len(loaded) = 1
    /\ loaded[1].data = <<30, 40>>

\* The elements of list at address a, in list order
AtAddress(list, a) == SelectSeq(list, LAMBDA s : s.address = a)

\* C29: the section list from_elf_file returns is sorted ascending by
\* address whatever the order of the section table, and sections with equal
\* addresses keep their section-table order.
C29_SortedStable ==
    Loaded =>
       LET out == verifier.sections
       IN  /\ Len(out) = Len(loaded)
           /\ \A i \in 1..Len(out), j \in 1..Len(out) :
                 i < j => out[i].address <= out[j].address
           /\ \A a \in {loaded[k].address : k \in 1..Len(loaded)} :
                 AtAddress(out, a) = AtAddress(loaded, a)

\* A returned list whose table had a higher address before a lower one and
\* two different sections at one address
C29_Witness ==
    /\ Loaded
    /\ \E i \in 1..Len(loaded), j \in 1..Len(loaded) :
          i < j /\ loaded[i].address > loaded[j].address
    /\ \E i \in 1..Len(loaded), j \in 1..Len(loaded) :
          i < j /\ loaded[i].address = loaded[j].address /\ loaded[i] # loaded[j]

\* a <= b for two u32 values kept as halves
Le32(a, b) == a.hi < b.hi \/ (a.hi = b.hi /\ a.lo <= b.lo)

\* C30: get_memory_map returns one pair (start, inclusive end) per section
\* in list order, a section of size 0 included, with start equal to the
\* section address and start <= end in 32-bit unsigned arithmetic.
C30_MemoryMap ==
    lpc = "mapped" =>
       /\ memmap.kind = "Ok"
       /\ Len(memmap.pairs) = Len(verifier.sections)
       /\ \A k \in 1..Len(verifier.sections) :
             /\ memmap.pairs[k][1] = ToW32(verifier.sections[k].address)
             /\ Le32(memmap.pairs[k][1], memmap.pairs[k][2])

----------------------------------------------------------------------------
(* Properties of the event front end *)

TaskIds == 1..Len(tasks)

\* A handler task is inside its operation: it holds the guard and has not
\* yet finished its exchange; it is in the middle of the exchange when the
\* request is written and the reply not yet read.
InOperation(t) == tasks[t].pc \in {"locked", "sent"}
MidExchange(t) == tasks[t].pc = "sent"
PollerInside == poller.pc = "locked"

\* At most one actor is inside, and it holds the lock.
OneInside ==
    /\ \A t \in TaskIds : InOperation(t) => mutex.holder = t
    /\ PollerInside => mutex.holder = POLLER
    /\ \A t \in TaskIds, u \in TaskIds : (InOperation(t) /\ InOperation(u)) => t = u
    /\ \A t \in TaskIds : ~(InOperation(t) /\ PollerInside)

\* A step that writes a request or reads a reply is taken by the holder of
\* the lock while no other task is in the middle of an exchange; a step that
\* replaces or closes the transport is taken by the poller holding the lock
\* while no task is in the middle of an exchange.
AccessStep ==
    /\ \A t \in TaskIds :
          (tasks'[t].pc # tasks[t].pc /\ tasks[t].pc \in {"locked", "sent"}) =>
             /\ mutex.holder = t
             /\ \A u \in TaskIds \ {t} : ~MidExchange(u)
    /\ port' # port =>
          /\ mutex.holder = POLLER
          /\ \A t \in TaskIds : ~MidExchange(t)

\* C32: every access to the front end's SerialLoader is serialized by its
\* lock for a full operation: the exchange (request write plus reply read)
\* of one halt or resume handler never interleaves with that of another, and
\* the poller reconnects or closes the transport only while it holds the
\* lock, never in the middle of an exchange.
C32_Serialized == [](OneInside) /\ [][AccessStep]_vars

\* A handler in the middle of its exchange while a second handler and the
\* poller, which has seen the device gone, wait for the lock
C32_Witness ==
    /\ Len(tasks) = 2
    /\ MidExchange(1)
    /\ tasks[2].pc = "spawned"
    /\ poller.pc = "lock" /\ ~poller.seen
    /\ mutex.holder = 1

\* C33: the session stays usable after any control operation: after any
\* sequence of halt and resume requests, answered by the device or not, a
\* later request still acquires the loader lock (the mutex is not poisoned,
\* no handler has met a lock failure) and the handlers leave the transport
\* handle as it was.
C33_StaysUsable ==
    /\ ~mutex.poisoned
    /\ \A t \in TaskIds : tasks[t].result # "no_lock"
    /\ plugs = 0 /\ poller.last_status = "None" /\ poller.pc = "poll" =>
          port = [handle |-> 0, open |-> TRUE]

\* The acknowledgements sent for task t
AcksOf(t) == {k \in 1..Len(acks) : acks[k].task = t}

\* C34: every halt or resume event is answered with exactly one
\* CommandResponse whose success flag is true exactly when the loader
\* operation returned success, whether the device replied, stayed silent,
\* the transport failed or the lock was not acquired: no task has more than
\* one acknowledgement, and a task whose handler is over has exactly one,
\* for its own command and with that flag.
C34_OneAcknowledgement ==
    \A t \in TaskIds :
       /\ Cardinality(AcksOf(t)) <= 1
       /\ tasks[t].pc \in {"done", "panicked"} =>
             /\ Cardinality(AcksOf(t)) = 1
             /\ \A k \in AcksOf(t) :
                   /\ acks[k].response.command = tasks[t].event
                   /\ acks[k].response.success = (tasks[t].result = "Ok")

----------------------------------------------------------------------------
(* Properties of the 32-bit block checksums *)

\* The standard CRC-32 computed most significant bit first: polynomial
\* 0x04C11DB7, every input byte bit-reversed, the register bit-reversed and
\* complemented at the end
RECURSIVE Reflect(_, _)
Reflect(v, n) == IF n = 0 THEN 0 ELSE (v % 2) * 2 ^ (n - 1) + Reflect(v \div 2, n - 1)
Reflect32(a) == W32(Reflect(a.lo, 16), Reflect(a.hi, 16))
Complement32(a) == W32(65535 - a.hi, 65535 - a.lo)
Shl1(a) == W32(((a.hi * 2) % 65536) + (a.lo \div 32768), (a.lo * 2) % 65536)
MsbStep(a) == IF a.hi >= 32768 THEN Xor32(Shl1(a), W32(1217, 7607)) ELSE Shl1(a)
RECURSIVE MsbSteps(_, _)
MsbSteps(a, n) ==
    IF n = 0 THEN a
    ELSE LET next == MsbStep(a) IN IF next.lo >= 0 THEN MsbSteps(next, n - 1) ELSE next
MsbByte(a, byte) == MsbSteps(W32(XorBits(a.hi, Reflect(byte, 8) * 256, 16), a.lo), 8)
RECURSIVE MsbFold(_, _)
MsbFold(a, bytes) ==
    IF bytes = <<>> THEN a
    ELSE LET next == MsbByte(a, Head(bytes))
         IN  IF next.lo >= 0 THEN MsbFold(next, Tail(bytes)) ELSE next
StandardCrc32(bytes) == Complement32(Reflect32(MsbFold(W32(65535, 65535), bytes)))

\* C37: software_crc, seeded with 0xFFFFFFFF and without a final complement,
\* returns 0xFFFFFFFF over empty input and over every non-empty input the
\* bitwise complement of the standard CRC-32 of the same bytes; the four
\* bytes it returns are the value least significant byte first.
C37_SoftwareCrc ==
    (kpc = "done" /\ ~crc32.panic) =>
       LET input == SubSeq(crc_data, 1, crc_length)
           value == Complement32(StandardCrc32(input))
       IN  /\ Len(crc32.bytes) = 4
           /\ input = <<>> => crc32.bytes = <<255, 255, 255, 255>>
           /\ crc32.bytes[1] = value.lo % 256
           /\ crc32.bytes[2] = value.lo \div 256
           /\ crc32.bytes[3] = value.hi % 256
           /\ crc32.bytes[4] = value.hi \div 256

\* The digits "123456789", whose standard CRC-32 is 0xCBF43926
C37_Witness ==
    /\ kpc = "done"
    /\ crc_data = <<49, 50, 51, 52, 53, 54, 55, 56, 57>>
    /\ crc_length = 9
    /\ crc32.bytes = <<217, 198, 11, 52>>

\* The bytes the digest is taken over: per section the address, least
\* significant byte first, then the data
RECURSIVE DigestInput(_)
DigestInput(list) ==
    IF list = <<>> THEN <<>>
    ELSE <<Head(list).address % 256, (Head(list).address \div 256) % 256,
           (Head(list).address \div 65536) % 256, Head(list).address \div 16777216>>
         \o Head(list).data \o DigestInput(Tail(list))

\* C31: calculate_checksum is the Block checksum (initial value 0xFFFFFFFF,
\* reflected polynomial 0xEDB88320, no final complement) of the section
\* addresses as 4 little-endian bytes each followed by the section data, in
\* list order; it is 0xFFFFFFFF for an empty section list.
C31_ImageDigest ==
    checksum.kind = "Ok" =>
       /\ checksum.value = Complement32(StandardCrc32(DigestInput(verifier.sections)))
       /\ verifier.sections = <<>> => checksum.value = W32(65535, 65535)

----------------------------------------------------------------------------
(* Properties of verify_flash *)

Last(s) == s[Len(s)]

\* The run has returned through the Err arm of a chunk read.
Aborted == pc = "returned" /\ calls # <<>> /\ ~Last(calls).ok

\* The run has returned through the end of the section loop.
Completed == pc = "returned" /\ ~Aborted

\* The chunk loop of the current section is over and its data is about to be
\* compared.
AtCompare == pc = "while_remaining" /\ remaining = 0

\* Number of entries of a sequence that satisfy Test
CountIn(seq, Test(_)) == Cardinality({k \in 1..Len(seq) : Test(seq[k])})

IsReadError(m) == m.kind = "Failed to read flash at"
IsSizeError(m) == m.kind = "Size mismatch in section at"

\* C1: every returned result, completed or aborted, has success true exactly
\* when it holds no error and no mismatched section.
C1_SuccessIsDerived ==
    pc = "returned" =>
        (result.success <=>
            (result.errors = <<>> /\ DOMAIN result.mismatched_sections = {}))

\* C2: the first failing chunk read appends exactly one error naming the
\* address of that read and ends the run: it is the last call ever made, and
\* nothing changes after it (no section is recorded any more).
C2_StateAfterAbort ==
    \A k \in 1..Len(calls) :
        ~calls[k].ok =>
            /\ k = Len(calls)
            /\ pc = "returned"
            /\ result.errors # <<>>
            /\ IsReadError(Last(result.errors))
            /\ Last(result.errors).address = calls[k].address
            /\ CountIn(result.errors, IsReadError) = 1
C2_AbortStep ==
    /\ (~Aborted /\ Aborted') =>
          /\ Len(result'.errors) = Len(result.errors) + 1
          /\ SubSeq(result'.errors, 1, Len(result.errors)) = result.errors
          /\ result'.verified_sections = result.verified_sections
          /\ result'.mismatched_sections = result.mismatched_sections
    /\ Aborted => UNCHANGED vars
C2_FailFast == [](C2_StateAfterAbort) /\ [][C2_AbortStep]_vars

\* C2 witness: the second chunk of the first of two sections failed.
C2_Witness ==
    /\ Aborted
    /\ Len(sections) = 2
    /\ Len(calls) = 2
    /\ Last(calls).section = 1
    /\ sections[2].size > 0

\* Offsets (0-based) at which the read-back data differs from the expected
\* data of a section.
DiffOffsets(section, actual) ==
    {i \in 0..(Len(section.data) - 1) : section.data[i + 1] # actual[i + 1]}

\* list holds one entry for every differing offset and no other, in
\* increasing offset order.
IsMismatchReport(list, section, actual) ==
    /\ Len(list) = Cardinality(DiffOffsets(section, actual))
    /\ \A j \in 1..Len(list) :
          LET i == list[j].address - section.address
          IN  /\ i \in DiffOffsets(section, actual)
              /\ list[j].expected = section.data[i + 1]
              /\ list[j].actual = actual[i + 1]
    /\ \A j \in 1..(Len(list) - 1) : list[j].address < list[j + 1].address

\* C3: a section read back with the length of its expected data is recorded
\* as verified when no byte differs, and otherwise in the mismatch map under
\* its base address with exactly the differing offsets, in offset order.
C3_CompareStep ==
    (AtCompare /\ Len(flash_data) = Len(sections[sec].data)) =>
        LET section == sections[sec]
        IN  IF DiffOffsets(section, flash_data) = {}
            THEN /\ result'.verified_sections =
                        Append(result.verified_sections, section.address)
                 /\ result'.mismatched_sections = result.mismatched_sections
                 /\ result'.errors = result.errors
            ELSE /\ section.address \in DOMAIN result'.mismatched_sections
                 /\ IsMismatchReport(result'.mismatched_sections[section.address],
                                     section, flash_data)
                 /\ \A a \in DOMAIN result'.mismatched_sections \ {section.address} :
                        /\ a \in DOMAIN result.mismatched_sections
                        /\ result'.mismatched_sections[a] = result.mismatched_sections[a]
                 /\ result'.verified_sections = result.verified_sections
                 /\ result'.errors = result.errors
C3_SectionOutcome == [][C3_CompareStep]_vars

\* C3 witness: one section verified, and another recorded with several but
\* not all of its bytes mismatching.
C3_Witness ==
    /\ pc = "for_section"
    /\ sec = 3
    /\ Len(result.verified_sections) = 1
    /\ \E a \in DOMAIN result.mismatched_sections :
          /\ Len(result.mismatched_sections[a]) >= 2
          /\ \E k \in 1..2 :
                /\ sections[k].address = a
                /\ Len(result.mismatched_sections[a]) < Len(sections[k].data)

\* The requests a section is read with: (address + 4k, min(4, size - 4k)).
NumChunks(size) == (size + CHUNK_MAX - 1) \div CHUNK_MAX
ExpectedRequests(section) ==
    [k \in 1..NumChunks(section.size) |->
        [address |-> section.address + CHUNK_MAX * (k - 1),
         length |-> Min(CHUNK_MAX, section.size - CHUNK_MAX * (k - 1))]]

\* The requests made for section i so far, in order.
RequestsOf(i) ==
    LET mine == SelectSeq(calls, LAMBDA c : c.section = i)
    IN  [k \in 1..Len(mine) |-> [address |-> mine[k].address, length |-> mine[k].length]]

\* Section i has been read to its end.
SectionRead(i) == i < sec \/ (i = sec /\ AtCompare)

RECURSIVE SumLengths(_)
SumLengths(reqs) ==
    IF reqs = <<>> THEN 0 ELSE Head(reqs).length + SumLengths(Tail(reqs))

\* C4: the requests of a section are (address + 4k, min(4, size - 4k)) for
\* k = 0, 1, .. in order: each between 1 and 4 bytes, contiguous, and, once the
\* section has been read without a failure, covering [address, address + size);
\* the sections are read in list order.
C4_ChunkRequests ==
    /\ \A i \in 1..Len(sections) :
          LET reqs == RequestsOf(i)
              want == ExpectedRequests(sections[i])
          IN  /\ Len(reqs) <= Len(want)
              /\ reqs = SubSeq(want, 1, Len(reqs))
              /\ \A k \in 1..Len(reqs) : reqs[k].length >= 1 /\ reqs[k].length <= 4
              /\ \A k \in 1..(Len(reqs) - 1) :
                    reqs[k + 1].address = reqs[k].address + reqs[k].length
              /\ (SectionRead(i) /\ ~Aborted) =>
                    /\ reqs = want
                    /\ SumLengths(reqs) = sections[i].size
                    /\ (reqs # <<>> => reqs[1].address = sections[i].address)
    /\ \A j \in 1..Len(calls) : \A k \in j..Len(calls) :
          calls[j].section <= calls[k].section

\* C4 witness: a two-chunk section and then a second section have been read.
C4_Witness ==
    /\ Completed
    /\ Len(sections) = 2
    /\ Len(RequestsOf(1)) = 2
    /\ RequestsOf(1)[2].length = 1
    /\ Len(RequestsOf(2)) = 1

\* The 0-based offset i of the current section was filled by padding: the
\* chunk that covers it came back with too few bytes to reach it.
PaddedOffset(i) ==
    LET c == (i \div CHUNK_MAX) + 1
    IN  (i % CHUNK_MAX) + 1 > Len(rets[c])

\* C5: a successful chunk read adds exactly the requested number of bytes:
\* the returned bytes first, 0xFF in the positions the read did not fill;
\* and the expected bytes at padded positions are compared against 0xFF.
C5_ReadStep ==
    (Len(rets') = Len(rets) + 1) =>
        LET raw == Last(rets')
            n == Last(calls').length
        IN  /\ Len(flash_data') = Len(flash_data) + n
            /\ SubSeq(flash_data', 1, Len(flash_data)) = flash_data
            /\ \A j \in 1..n :
                  flash_data'[Len(flash_data) + j] =
                      IF j <= Len(raw) THEN raw[j] ELSE 255
C5_CompareStep ==
    (AtCompare /\ Len(flash_data) = Len(sections[sec].data)) =>
        LET section == sections[sec]
            \* what this step reported for the section: nothing when it was
            \* recorded as verified, else its list in the mismatch map
            list == IF result'.verified_sections # result.verified_sections
                    THEN <<>>
                    ELSE result'.mismatched_sections[section.address]
            reported(i) ==
                \E j \in 1..Len(list) : list[j].address = section.address + i
        IN  \A i \in 0..(Len(section.data) - 1) :
                PaddedOffset(i) =>
                    /\ reported(i) <=> (section.data[i + 1] # 255)
                    /\ reported(i) =>
                          [address |-> section.address + i,
                           expected |-> section.data[i + 1],
                           actual |-> 255] \in {list[j] : j \in 1..Len(list)}
C5_Padding == [][C5_ReadStep /\ C5_CompareStep]_vars

\* C5 witness: a section whose first chunk came back short has been compared
\* and the padded bytes are reported as mismatches with actual = 0xFF.
C5_Witness ==
    /\ pc = "for_section"
    /\ sec = 2
    /\ Len(rets) = 2
    /\ Len(rets[1]) \in 1..3
    /\ \E a \in DOMAIN result.mismatched_sections :
          \E j \in 1..Len(result.mismatched_sections[a]) :
              /\ result.mismatched_sections[a][j].actual = 255
              /\ result.mismatched_sections[a][j].address = a + 3

\* C6: a section whose read-back length differs from the length of its
\* expected data gets one size-mismatch error, is added to neither collection,
\* and the run goes on with the next section.
C6_SizeStep ==
    (AtCompare /\ Len(flash_data) # Len(sections[sec].data)) =>
        /\ Len(result'.errors) = Len(result.errors) + 1
        /\ SubSeq(result'.errors, 1, Len(result.errors)) = result.errors
        /\ IsSizeError(Last(result'.errors))
        /\ Last(result'.errors).address = sections[sec].address
        /\ Last(result'.errors).expected = Len(sections[sec].data)
        /\ Last(result'.errors).got = Len(flash_data)
        /\ result'.verified_sections = result.verified_sections
        /\ result'.mismatched_sections = result.mismatched_sections
        /\ sec' = sec + 1
        /\ pc' = "for_section"
C6_SizeMismatch ==
    /\ []((pc = "for_section" /\ sec <= Len(sections)) => ENABLED BeginSection)
    /\ [][C6_SizeStep]_vars

\* C6 witness: the first section had a size mismatch and the second one has
\* been read and verified.
C6_Witness ==
    /\ Completed
    /\ Len(sections) = 2
    /\ Len(result.errors) = 1
    /\ IsSizeError(result.errors[1])
    /\ result.errors[1].address = sections[1].address
    /\ result.errors[1].expected > result.errors[1].got
    /\ result.verified_sections = <<sections[2].address>>
    /\ Len(RequestsOf(2)) = 1

\* C7: every returned result, completed or aborted, has total_sections equal
\* to the number of sections of the list.
C7_TotalSections ==
    pc = "returned" => result.total_sections = Len(sections)


\* C35: after a run that was not aborted every section is accounted for
\* exactly once, also when two sections share an address: no address is both
\* in verified_sections and a key of mismatched_sections, and verified
\* sections plus mismatched-section keys plus size-mismatch errors add up to
\* total_sections.
C35_EverySectionOnce ==
    Completed =>
       /\ \A k \in 1..Len(result.verified_sections) :
             result.verified_sections[k] \notin DOMAIN result.mismatched_sections
       /\ Len(result.verified_sections)
            + Cardinality(DOMAIN result.mismatched_sections)
            + CountIn(result.errors, IsSizeError)
          = result.total_sections

\* The read-back calls made for section i
CallsFor(i) == {k \in 1..Len(calls) : calls[k].section = i}

\* Call budget: a section of size s has had at most ceil(s / 4) read-back
\* calls, a section of size 0 none.
CallBudget ==
    \A i \in 1..Len(sections) :
       Cardinality(CallsFor(i)) <= (sections[i].size + 3) \div 4

\* Every read-back call leaves fewer bytes remaining, or, failing, ends the
\* run.
CallStep ==
    calls' # calls =>
       \/ remaining' < remaining /\ remaining' >= 0
       \/ pc' = "returned" /\ ~Last(calls').ok

\* The compare step of a section of size 0 records it as verified.
EmptyVerifiedStep ==
    (AtCompare /\ sections[sec].size = 0 /\ sec' = sec + 1) =>
       /\ result'.verified_sections = Append(result.verified_sections, sections[sec].address)
       /\ result'.errors = result.errors

\* The compare step of a section of size 0 records it as verified if it has
\* no expected data, and as a size mismatch if it has.
EmptyRecordedStep ==
    (AtCompare /\ sections[sec].size = 0 /\ sec' = sec + 1) =>
       IF sections[sec].data = <<>>
       THEN /\ result'.verified_sections
                  = Append(result.verified_sections, sections[sec].address)
            /\ result'.errors = result.errors
       ELSE /\ result'.verified_sections = result.verified_sections
            /\ Len(result'.errors) = Len(result.errors) + 1
            /\ IsSizeError(Last(result'.errors))

\* C36 as stated: verify_flash terminates when the read-back function
\* returns; a section of size s gets at most ceil(s / 4) read-back calls;
\* the remaining byte count strictly decreases with every call; a section of
\* size 0 causes no call and is recorded as verified.
C36_TerminatesAsStated ==
    /\ <>(pc = "returned")
    /\ [](CallBudget)
    /\ [][CallStep /\ EmptyVerifiedStep]_vars

\* C36 amended: as above, but a section of size 0 is recorded as verified
\* only when its expected data is empty; with expected data it is recorded
\* as a size mismatch (still without a read-back call).
C36_Terminates ==
    /\ <>(pc = "returned")
    /\ [](CallBudget)
    /\ [][CallStep /\ EmptyRecordedStep]_vars

\* A completed run over a section of size 0 without data, recorded as
\* verified with no call, and a section of size 5 read in two calls
C36_Witness ==
    /\ Completed
    /\ Len(sections) = 2
    /\ sections[1].size = 0 /\ sections[1].data = <<>>
    /\ sections[2].size = 5
    /\ CallsFor(1) = {}
    /\ Cardinality(CallsFor(2)) = 2
    /\ result.verified_sections[1] = sections[1].address

=============================================================================
